---------------------------- MODULE Spec2Model ----------------------------
(***************************************************************************)
(* A model of the Monte Carlo core of asetil: the temperature/beta         *)
(* properties of BaseMonteCarlo and Proposer, the tag selectors, the       *)
(* weighted sampler selector, the step/run loop of MonteCarlo, the         *)
(* samplers' calc_acceptability, sample and select_tags, and the           *)
(* MCPFileLogger.                                                          *)
(*                                                                         *)
(* Python floats are modelled as exact rationals [n |-> , d |-> ] in       *)
(* lowest terms with d > 0, numpy.inf as 1/0 and numpy.nan as 0/0, and,    *)
(* in calc_acceptability and in the positions of sample, as decimal        *)
(* floating-point numbers of four digits; IEEE rounding is outside the     *)
(* model.  A Python exception is                                           *)
(* modelled as the name of its class, "none" standing for a normal return. *)
(***************************************************************************)
EXTENDS Integers, Sequences, FiniteSets, TLC

VARIABLES
    mc,         \* the _temperature/_beta part of a BaseMonteCarlo instance
    proposer,   \* the _temperature/_beta part of a Proposer instance
    lastTB,     \* the last temperature/beta operation and the state it met
    selector,   \* a RandomSamplerSelector: _samplers, _weights, _p
    lastSel,    \* the last RandomSamplerSelector operation
    tagsel,     \* the last TagSelector.select call: its inputs and outcome
    engine,     \* a MonteCarlo instance
    call,       \* the run/step call in progress or last ended
    events,     \* the calls the engine has made on its observers, in order
    carried,    \* the energy of the candidate of the last accepted step
    accept,     \* the last calc_acceptability calls: inputs and outcomes
    sampling,   \* the last select_tags or sample call on a sampler
    filelog     \* the files on disk and the MCPFileLogger working on them

vars == <<mc, proposer, lastTB, selector, lastSel, tagsel, engine, call, events,
          carried, accept, sampling, filelog>>

-----------------------------------------------------------------------------
(* Bounds of the model.                                                    *)

MaxTemp == 2        \* temperatures assigned are the integers -1 .. MaxTemp
MaxSites == 3       \* sites of a configuration
MaxTag == 2         \* tags of sites and of selector lists are 0 .. MaxTag
MaxNumTags == 3     \* num_tags of a select call is 0 .. MaxNumTags
MaxSamplers == 3    \* samplers a selector holds
MaxWeight == 2      \* weights are 1 .. MaxWeight
MaxIter == 2        \* max_iter and current_iter are 0 .. MaxIter
MaxObservers == 2   \* observers registered with an engine
MaxRuns == 2        \* run/step calls made on one engine

-----------------------------------------------------------------------------
(* Exact rational arithmetic standing for Python float arithmetic.         *)

Abs(x) == IF x < 0 THEN -x ELSE x

RECURSIVE GCD(_, _)
GCD(a, b) == IF b = 0 THEN a ELSE GCD(b, a % b)

Rat(n, d) == [n |-> n, d |-> d]

\* a / b for rationals in lowest terms, b # 0; cancels before multiplying
RDiv(a, b) ==
    LET g1 == GCD(Abs(a.n), Abs(b.n))
        g2 == GCD(b.d, a.d)
        n == IF g1 = 0 THEN 0 ELSE (a.n \div g1) * (b.d \div g2)
        d == IF g1 = 0 THEN 1 ELSE (a.d \div g2) * (b.n \div g1)
    IN  IF d < 0 THEN Rat(-n, -d) ELSE Rat(n, d)

\* a * b for rationals in lowest terms
RMul(a, b) ==
    LET g1 == GCD(Abs(a.n), b.d)
        g2 == GCD(Abs(b.n), a.d)
    IN  IF a.n = 0 \/ b.n = 0 THEN Rat(0, 1)
        ELSE Rat((a.n \div g1) * (b.n \div g2), (a.d \div g2) * (b.d \div g1))

RLeq0(a) == a.n <= 0
RPos(a) == a.n > 0
ROne == Rat(1, 1)

\* ase.units.kB, the Boltzmann constant in eV/K (8.617e-5), as KB_NUM/KB_DEN
KB_NUM == 8617
KB_DEN == 100000000
kB == Rat(KB_NUM, KB_DEN)

\* an attribute that has not been bound
Unbound == Rat(0, 0)

\* numpy.nan and numpy.inf
NaN == Rat(0, 0)
Inf == Rat(1, 0)

-----------------------------------------------------------------------------
(* BaseMonteCarlo and Proposer: temperature and beta.                      *)
(* An operation returns [obj |-> the instance after it, exc |-> exception].*)

NoObject == [exists |-> FALSE, temperature |-> Unbound, beta |-> Unbound]

\* @temperature.setter of BaseMonteCarlo
BaseMonteCarlo_set_temperature(self, temperature) ==
    IF RLeq0(temperature)
    THEN [obj |-> self, exc |-> "ValueError"]
    ELSE [obj |-> [self EXCEPT !.temperature = temperature,
                               !.beta = RDiv(RDiv(ROne, kB), temperature)],
          exc |-> "none"]

\* a beta setter that forgets to recompute the temperature
BadSetBeta(self, beta) ==
    IF RLeq0(beta)
    THEN [obj |-> self, exc |-> "ValueError"]
    ELSE [obj |-> [self EXCEPT !.beta = beta], exc |-> "none"]

\* @beta.setter of BaseMonteCarlo
BaseMonteCarlo_set_beta(self, beta) ==
    IF RLeq0(beta)
    THEN [obj |-> self, exc |-> "ValueError"]
    ELSE [obj |-> [self EXCEPT !.beta = beta,
                               !.temperature = RDiv(RDiv(ROne, kB), beta)],
          exc |-> "none"]

\* BaseMonteCarlo.__init__: a raising constructor yields no instance
BaseMonteCarlo_init(temperature) ==
    LET r == BaseMonteCarlo_set_temperature(
                 [exists |-> TRUE, temperature |-> Unbound, beta |-> Unbound],
                 temperature)
    IN  IF r.exc = "none" THEN r ELSE [obj |-> NoObject, exc |-> r.exc]

\* @temperature.setter of Proposer
Proposer_set_temperature(self, temperature) ==
    IF RLeq0(temperature)
    THEN [obj |-> self, exc |-> "ValueError"]
    ELSE [obj |-> [self EXCEPT !.temperature = temperature,
                               !.beta = RDiv(RDiv(ROne, kB), temperature)],
          exc |-> "none"]

\* @beta.setter of Proposer
Proposer_set_beta(self, beta) ==
    IF RLeq0(beta)
    THEN [obj |-> self, exc |-> "ValueError"]
    ELSE [obj |-> [self EXCEPT !.beta = beta,
                               !.temperature = RDiv(RDiv(ROne, kB), beta)],
          exc |-> "none"]

\* Proposer.__init__
Proposer_init(temperature) ==
    LET r == Proposer_set_temperature(
                 [exists |-> TRUE, temperature |-> Unbound, beta |-> Unbound],
                 temperature)
    IN  IF r.exc = "none" THEN r ELSE [obj |-> NoObject, exc |-> r.exc]

\* the values assigned: integers, halves, and the beta of each temperature
TempValues == {Rat(t, 1) : t \in -1 .. MaxTemp} \cup {Rat(1, 2)}
BetaValues == TempValues
              \cup {RDiv(ROne, RMul(kB, Rat(t, 1))) : t \in 1 .. MaxTemp}

NoTB == [who |-> "none", op |-> "none", arg |-> Unbound, exc |-> "none",
         pre |-> NoObject]


-----------------------------------------------------------------------------
(* The other components at rest, for the specifications that leave them    *)
(* alone.                                                                  *)

NoSelector == [exists |-> FALSE, samplers |-> <<>>, weights |-> <<>>, p |-> <<>>]
NoSel == [op |-> "none", exc |-> "none", pre |-> NoSelector,
          samplers |-> <<>>, weights |-> <<>>]
NoTagSel == [kind |-> "none"]

ThermoAtRest == /\ mc = NoObject /\ proposer = NoObject /\ lastTB = NoTB
SelectorAtRest == selector = NoSelector /\ lastSel = NoSel
TagsAtRest == tagsel = NoTagSel
EngineAtRest ==
    /\ engine = [exists |-> FALSE] /\ call = [pc |-> "idle"] /\ events = <<>>
    /\ carried = NaN
NoAccept == [variant |-> "none"]
NoSampling == [op |-> "none"]
NoFileLog == [op |-> "none", logger |-> [exists |-> FALSE]]
SamplersAtRest ==
    accept = NoAccept /\ sampling = NoSampling /\ filelog = NoFileLog

-----------------------------------------------------------------------------
(* Temperature and beta: construction and assignment, on a BaseMonteCarlo  *)
(* and on a Proposer.                                                      *)

TBRecord(who, op, arg, r, pre) ==
    [who |-> who, op |-> op, arg |-> arg, exc |-> r.exc, pre |-> pre]

MC_Construct ==
    /\ ~mc.exists
    /\ \E t \in TempValues :
        LET r == BaseMonteCarlo_init(t) IN
        /\ mc' = r.obj
        /\ lastTB' = TBRecord("mc", "init", t, r, mc)
        /\ UNCHANGED <<proposer, selector, lastSel, tagsel, engine, call, events,
                 carried, accept, sampling, filelog>>

MC_SetTemperature ==
    /\ mc.exists
    /\ \E t \in TempValues :
        LET r == BaseMonteCarlo_set_temperature(mc, t) IN
        /\ mc' = r.obj
        /\ lastTB' = TBRecord("mc", "set_temperature", t, r, mc)
        /\ UNCHANGED <<proposer, selector, lastSel, tagsel, engine, call, events,
                 carried, accept, sampling, filelog>>

MC_SetBeta ==
    /\ mc.exists
    /\ \E b \in BetaValues :
        LET r == BaseMonteCarlo_set_beta(mc, b) IN
        /\ mc' = r.obj
        /\ lastTB' = TBRecord("mc", "set_beta", b, r, mc)
        /\ UNCHANGED <<proposer, selector, lastSel, tagsel, engine, call, events,
                 carried, accept, sampling, filelog>>

Proposer_Construct ==
    /\ ~proposer.exists
    /\ \E t \in TempValues :
        LET r == Proposer_init(t) IN
        /\ proposer' = r.obj
        /\ lastTB' = TBRecord("proposer", "init", t, r, proposer)
        /\ UNCHANGED <<mc, selector, lastSel, tagsel, engine, call, events,
                 carried, accept, sampling, filelog>>

Proposer_SetTemperature ==
    /\ proposer.exists
    /\ \E t \in TempValues :
        LET r == Proposer_set_temperature(proposer, t) IN
        /\ proposer' = r.obj
        /\ lastTB' = TBRecord("proposer", "set_temperature", t, r, proposer)
        /\ UNCHANGED <<mc, selector, lastSel, tagsel, engine, call, events,
                 carried, accept, sampling, filelog>>

Proposer_SetBeta ==
    /\ proposer.exists
    /\ \E b \in BetaValues :
        LET r == Proposer_set_beta(proposer, b) IN
        /\ proposer' = r.obj
        /\ lastTB' = TBRecord("proposer", "set_beta", b, r, proposer)
        /\ UNCHANGED <<mc, selector, lastSel, tagsel, engine, call, events,
                 carried, accept, sampling, filelog>>

InitThermo == ThermoAtRest /\ SelectorAtRest /\ TagsAtRest /\ EngineAtRest
    /\ SamplersAtRest

NextThermo ==
    \/ MC_Construct
    \/ MC_SetTemperature
    \/ MC_SetBeta
    \/ Proposer_Construct
    \/ Proposer_SetTemperature
    \/ Proposer_SetBeta

SpecThermo == InitThermo /\ [][NextThermo]_vars

\* the instance the last temperature/beta operation was made on
Target == IF lastTB.who = "mc" THEN mc ELSE proposer

ThermoOK(o) ==
    o.exists =>
        /\ RPos(o.temperature)
        /\ RPos(o.beta)
        /\ o.beta = RDiv(ROne, RMul(kB, o.temperature))

(* C1: an existing BaseMonteCarlo or Proposer always has temperature > 0,  *)
(* beta > 0 and beta = 1/(kB*temperature); an assignment of a value <= 0   *)
(* raises and leaves the instance as it was; assigning beta = 1/(kB*T)     *)
(* leaves temperature = T.                                                 *)
C1_TemperatureBeta ==
    /\ ThermoOK(mc)
    /\ ThermoOK(proposer)
    /\ (lastTB.op # "none" /\ RLeq0(lastTB.arg)) =>
           /\ lastTB.exc = "ValueError"
           /\ Target = lastTB.pre
    /\ (lastTB.op # "none" /\ RPos(lastTB.arg)) => lastTB.exc = "none"
    /\ \A t \in 1 .. MaxTemp :
           (lastTB.op = "set_beta"
            /\ lastTB.arg = RDiv(ROne, RMul(kB, Rat(t, 1)))) =>
               Target.temperature = Rat(t, 1)

\* beta := 1/(kB*2) was assigned to an engine at another temperature
C1_Witness ==
    /\ lastTB.who = "mc"
    /\ lastTB.op = "set_beta"
    /\ lastTB.arg = RDiv(ROne, RMul(kB, Rat(2, 1)))
    /\ lastTB.pre.exists
    /\ lastTB.pre.temperature = Rat(1, 2)
    /\ mc.temperature = Rat(2, 1)
    /\ proposer.exists

-----------------------------------------------------------------------------
(* Tag selectors.  A configuration is seen through get_tags(): the         *)
(* sequence of its sites' tags, several sites possibly sharing a tag.      *)

Range(s) == {s[i] : i \in 1 .. Len(s)}

Tags == 0 .. MaxTag

Configurations == UNION {[1 .. n -> Tags] : n \in 0 .. MaxSites}

RECURSIVE SortedSeq(_)
SortedSeq(S) ==
    IF S = {} THEN <<>>
    ELSE LET m == CHOOSE x \in S : \A y \in S : x <= y
         IN  <<m>> \o SortedSeq(S \ {m})

\* the tag lists given to a selector's constructor
TagLists == {SortedSeq(S) : S \in SUBSET Tags}

\* an optional list argument: None, or a list
None == [given |-> FALSE, list |-> <<>>]
Some(l) == [given |-> TRUE, list |-> l]
OptTagLists == {None} \cup {Some(l) : l \in TagLists}

\* RandomTagSelector.__init__
RandomTagSelector_init(target_tags, ignore_tags) ==
    [target_tags |-> target_tags,
     ignore_tags |-> IF ignore_tags.given THEN ignore_tags.list ELSE <<>>]

\* the ways of taking k positions of 1 .. n, in order, none twice
Arrangements(n, k) ==
    {s \in [1 .. k -> 1 .. n] : \A i, j \in 1 .. k : i # j => s[i] # s[j]}

\* numpy.random.choice(a, size=size, replace=False).tolist(): every outcome
np_random_choice(a, size) ==
    IF size > Len(a)
    THEN {[exc |-> "ValueError", result |-> <<>>]}
    ELSE {[exc |-> "none", result |-> [i \in 1 .. size |-> a[s[i]]]] :
             s \in Arrangements(Len(a), size)}

\* RandomTagSelector.select: every outcome
RandomTagSelector_select(self, system, num_tags) ==
    LET tags == IF self.target_tags.given THEN Some(system) ELSE self.target_tags
    IN  IF ~tags.given
        THEN {[exc |-> "TypeError", result |-> <<>>]}   \* iterating None
        ELSE LET available_tags ==
                     SelectSeq(tags.list,
                               LAMBDA tag : tag \notin Range(self.ignore_tags))
             IN  np_random_choice(available_tags, num_tags)

\* NotExistTagSelector.__init__
NotExistTagSelector_init(ignore_tags) ==
    [ignore_tags |-> IF ignore_tags.given THEN ignore_tags.list ELSE <<>>]

\* the inner loop of NotExistTagSelector.select: while tag in tags: tag += 1
RECURSIVE NextFree(_, _)
NextFree(tag, tags) == IF tag \in tags THEN NextFree(tag + 1, tags) ELSE tag

\* an outer loop that forgets tags.add(tag)
RECURSIVE BadNotExistLoop(_, _, _, _)
BadNotExistLoop(selected_tags, tag, tags, num_tags) ==
    IF Len(selected_tags) < num_tags
    THEN LET t == NextFree(tag, tags)
         IN  BadNotExistLoop(Append(selected_tags, t), t, tags, num_tags)
    ELSE selected_tags

\* the outer loop of NotExistTagSelector.select
RECURSIVE NotExistLoop(_, _, _, _)
NotExistLoop(selected_tags, tag, tags, num_tags) ==
    IF Len(selected_tags) < num_tags
    THEN LET t == NextFree(tag, tags)
         IN  NotExistLoop(Append(selected_tags, t), t, tags \cup {t}, num_tags)
    ELSE selected_tags

\* NotExistTagSelector.select
NotExistTagSelector_select(self, system, num_tags) ==
    NotExistLoop(<<>>, 0, Range(system) \cup Range(self.ignore_tags), num_tags)

\* One select call on a freshly built selector is made in a behaviour: the
\* selectors keep no state between calls.
RandomSelect ==
    /\ tagsel.kind = "none"
    /\ \E target \in OptTagLists, ignore \in OptTagLists,
          system \in Configurations, num_tags \in 0 .. MaxNumTags :
        LET self == RandomTagSelector_init(target, ignore) IN
        \E out \in RandomTagSelector_select(self, system, num_tags) :
            tagsel' = [kind |-> "random", target_tags |-> self.target_tags,
                       ignore_tags |-> self.ignore_tags, system |-> system,
                       num_tags |-> num_tags, exc |-> out.exc,
                       result |-> out.result]
    /\ UNCHANGED <<mc, proposer, lastTB, selector, lastSel, engine, call, events,
                 carried, accept, sampling, filelog>>

NotExistSelect ==
    /\ tagsel.kind = "none"
    /\ \E ignore \in OptTagLists, system \in Configurations,
          num_tags \in 0 .. MaxNumTags :
        LET self == NotExistTagSelector_init(ignore) IN
        tagsel' = [kind |-> "notexist", target_tags |-> None,
                   ignore_tags |-> self.ignore_tags, system |-> system,
                   num_tags |-> num_tags, exc |-> "none",
                   result |-> NotExistTagSelector_select(self, system, num_tags)]
    /\ UNCHANGED <<mc, proposer, lastTB, selector, lastSel, engine, call, events,
                 carried, accept, sampling, filelog>>

InitTags == ThermoAtRest /\ SelectorAtRest /\ TagsAtRest /\ EngineAtRest
    /\ SamplersAtRest

NextTags ==
    \/ RandomSelect
    \/ NotExistSelect

SpecTags == InitTags /\ [][NextTags]_vars

Distinct(s) == \A i, j \in 1 .. Len(s) : i # j => s[i] # s[j]

\* the tags the specification lets a RandomTagSelector draw from
Pool == IF tagsel.target_tags.given THEN Range(tagsel.target_tags.list)
        ELSE Range(tagsel.system)
Eligible == Pool \ Range(tagsel.ignore_tags)

(* C7: a RandomTagSelector.select that returns, returns exactly num_tags   *)
(* tags, pairwise distinct, none in ignore_tags, each from target_tags     *)
(* when that list was given and else from the configuration's tags.        *)
C7_RandomSelectClaim ==
    (tagsel.kind = "random" /\ tagsel.exc = "none") =>
        /\ Len(tagsel.result) = tagsel.num_tags
        /\ Distinct(tagsel.result)
        /\ Range(tagsel.result) \subseteq Eligible

(* C8: RandomTagSelector.select raises whenever fewer distinct eligible    *)
(* tags exist than num_tags.                                               *)
C8_RandomSelectFailsClaim ==
    (tagsel.kind = "random" /\ Cardinality(Eligible) < tagsel.num_tags) =>
        /\ tagsel.exc # "none"
        /\ tagsel.result = <<>>

(* C9: NotExistTagSelector.select(configuration, n) returns, for every     *)
(* n >= 0, the n smallest non-negative integers that are neither tags of   *)
(* the configuration nor in ignore_tags, in ascending order.               *)
C9_NotExistSelect ==
    tagsel.kind = "notexist" =>
        LET used == Range(tagsel.system) \cup Range(tagsel.ignore_tags)
            r == tagsel.result
        IN  /\ tagsel.exc = "none"
            /\ Len(r) = tagsel.num_tags
            /\ \A i \in 1 .. Len(r) : r[i] \in Nat /\ r[i] \notin used
            /\ \A i \in 1 .. Len(r) - 1 : r[i] < r[i + 1]
            /\ \A i \in 1 .. Len(r) : \A k \in 0 .. r[i] :
                   k \in used \/ k \in Range(r)

\* two fresh tags were asked for where tag 0 is ignored and tag 1 is in use
C9_Witness ==
    /\ tagsel.kind = "notexist"
    /\ tagsel.num_tags = 2
    /\ 0 \in Range(tagsel.ignore_tags)
    /\ 1 \in Range(tagsel.system)
    /\ 2 \notin Range(tagsel.system) \cup Range(tagsel.ignore_tags)
    /\ tagsel.result = <<2, 3>>

-----------------------------------------------------------------------------
(* RandomSamplerSelector.  A sampler is known by the name of its variant;  *)
(* weights are positive integers.                                          *)

\* the samplers given to selectors
SamplerNames == {"Translate", "Add", "SiteExchange"}

Weights == 1 .. MaxWeight

RECURSIVE Sum(_)
Sum(w) == IF w = <<>> THEN 0 ELSE Head(w) + Sum(Tail(w))

\* numpy.array(weights) / sum(weights), for positive weights
Normalize(weights) ==
    [i \in 1 .. Len(weights) |-> RDiv(Rat(weights[i], 1), Rat(Sum(weights), 1))]

\* x or []
OrEmpty(x) == IF x.given /\ x.list # <<>> THEN x.list ELSE <<>>

\* RandomSamplerSelector.__init__
RandomSamplerSelector_init(samplers, weights) ==
    LET ss == OrEmpty(samplers)
        ws == OrEmpty(weights)
    IN  IF Len(ss) # Len(ws)
        THEN [obj |-> NoSelector, exc |-> "RuntimeError"]
        ELSE [obj |-> [exists |-> TRUE, samplers |-> ss, weights |-> ws,
                       p |-> Normalize(ws)],
              exc |-> "none"]

\* an add_sampler that leaves the probabilities as they were
BadAddSampler(self, sampler, weight) ==
    [self EXCEPT !.samplers = Append(@, sampler),
                 !.weights = Append(@, weight)]

\* RandomSamplerSelector.add_sampler
RandomSamplerSelector_add_sampler(self, sampler, weight) ==
    LET ws == Append(self.weights, weight)
    IN  [self EXCEPT !.samplers = Append(@, sampler),
                     !.weights = ws,
                     !.p = Normalize(ws)]

\* RandomSamplerSelector.select: every outcome of
\* numpy.random.choice(self._samplers, p=self._p)
RandomSamplerSelector_select(self) ==
    IF self.samplers = <<>>
    THEN {[exc |-> "ValueError", sampler |-> "none"]}
    ELSE {[exc |-> "none", sampler |-> self.samplers[i]] :
             i \in {j \in 1 .. Len(self.samplers) : RPos(self.p[j])}}

SeqsUpTo(S, n) == UNION {[1 .. k -> S] : k \in 0 .. n}

\* one selector is constructed in a behaviour
Selector_Construct ==
    /\ lastSel.op = "none"
    /\ \E ss \in {None} \cup {Some(l) : l \in SeqsUpTo(SamplerNames, MaxSamplers - 1)},
          ws \in {None} \cup {Some(l) : l \in SeqsUpTo(Weights, MaxSamplers - 1)} :
        LET r == RandomSamplerSelector_init(ss, ws) IN
        /\ selector' = r.obj
        /\ lastSel' = [op |-> "init", exc |-> r.exc, pre |-> selector,
                       samplers |-> OrEmpty(ss), weights |-> OrEmpty(ws)]
    /\ UNCHANGED <<mc, proposer, lastTB, tagsel, engine, call, events,
                 carried, accept, sampling, filelog>>

Selector_AddSampler ==
    /\ selector.exists
    /\ Len(selector.samplers) < MaxSamplers
    /\ \E sampler \in SamplerNames, weight \in Weights :
        /\ selector' = RandomSamplerSelector_add_sampler(selector, sampler, weight)
        /\ lastSel' = [op |-> "add_sampler", exc |-> "none", pre |-> selector,
                       samplers |-> <<sampler>>, weights |-> <<weight>>]
    /\ UNCHANGED <<mc, proposer, lastTB, tagsel, engine, call, events,
                 carried, accept, sampling, filelog>>

Selector_Select ==
    /\ selector.exists
    /\ \E out \in RandomSamplerSelector_select(selector) :
        /\ lastSel' = [op |-> "select", exc |-> out.exc, pre |-> selector,
                       samplers |-> IF out.exc = "none" THEN <<out.sampler>>
                                    ELSE <<>>,
                       weights |-> <<>>]
        /\ UNCHANGED selector
    /\ UNCHANGED <<mc, proposer, lastTB, tagsel, engine, call, events,
                 carried, accept, sampling, filelog>>

InitSelector == ThermoAtRest /\ SelectorAtRest /\ TagsAtRest /\ EngineAtRest
    /\ SamplersAtRest

NextSelector ==
    \/ Selector_Construct
    \/ Selector_AddSampler
    \/ Selector_Select

SpecSelector == InitSelector /\ [][NextSelector]_vars

(* C10: an existing RandomSamplerSelector holds as many samplers as        *)
(* weights as probabilities, and its i-th probability is                   *)
(* weight_i / sum(weights); construction with lists of different lengths   *)
(* raises and yields no selector; add_sampler appends the sampler and the  *)
(* weight.                                                                 *)
C10_SelectorLists ==
    /\ selector.exists =>
           /\ Len(selector.samplers) = Len(selector.weights)
           /\ Len(selector.p) = Len(selector.weights)
           /\ \A i \in 1 .. Len(selector.p) :
                  /\ selector.p[i].d > 0
                  /\ selector.p[i].n * Sum(selector.weights)
                         = selector.weights[i] * selector.p[i].d
    /\ lastSel.op = "init" =>
           IF Len(lastSel.samplers) # Len(lastSel.weights)
           THEN lastSel.exc = "RuntimeError" /\ ~selector.exists
           ELSE /\ lastSel.exc = "none"
                /\ selector.exists
                /\ selector.samplers = lastSel.samplers
                /\ selector.weights = lastSel.weights
    /\ lastSel.op = "add_sampler" =>
           /\ selector.samplers = lastSel.pre.samplers \o lastSel.samplers
           /\ selector.weights = lastSel.pre.weights \o lastSel.weights

\* a sampler of weight 2 was added to a selector built with weights 1, 2
C10_Witness ==
    /\ lastSel.op = "add_sampler"
    /\ lastSel.pre.weights = <<1, 2>>
    /\ lastSel.weights = <<2>>
    /\ selector.p = <<Rat(1, 5), Rat(2, 5), Rat(2, 5)>>
    /\ lastSel.pre.p = <<Rat(1, 3), Rat(2, 3)>>

-----------------------------------------------------------------------------
(* MCStepInfo and the MonteCarlo engine.                                   *)
(*                                                                         *)
(* A configuration is an opaque value with an energy, the value its        *)
(* attached evaluator returns.  The sampler is a collaborator of the       *)
(* engine: the tags it selects, the candidate it produces and the          *)
(* acceptability it computes are drawn from small sets, and so is the      *)
(* stage of the step at which a collaborator raises, if one does.          *)

RSub(a, b) ==
    LET n == a.n * b.d - b.n * a.d
        d == a.d * b.d
        g == GCD(Abs(n), d)
    IN  Rat(n \div g, d \div g)

RLt(a, b) == a.n * b.d < b.n * a.d

\* a value not given: Python's None where an integer or a name is expected
NoIter == -1
NoConfig == [id |-> -1, energy |-> NaN]

\* the configurations given to step and run, and the candidates of samplers
SystemArgs == [id : {0}, energy : {Rat(0, 1), ROne}]
Candidates == [id : {1}, energy : {Rat(0, 1), ROne}]
TagDraws == {<<0>>}
AccValues == {Rat(0, 1), Rat(1, 2), ROne}
UValues == {Rat(0, 1), Rat(1, 2)}    \* numpy.random.rand() is in [0, 1)
EngineTemps == {Rat(0, 1), ROne}

\* the fields of the dataclass MCStepInfo
MCStepInfoFields ==
    {"iteration", "temperature", "beta", "sampler", "is_accepted",
     "acceptability", "system", "candidate", "latest_accepted_energy",
     "delta_energy"}

\* MCStepInfo(**kwargs): the generated __init__ takes the fields, all of
\* them and no other keyword
MCStepInfo(kwargs) ==
    IF DOMAIN kwargs = MCStepInfoFields
    THEN [exc |-> "none", info |-> [bound |-> TRUE, rec |-> kwargs]]
    ELSE [exc |-> "TypeError", info |-> [bound |-> FALSE, rec |-> <<>>]]

NoInfo == [bound |-> FALSE, rec |-> <<>>]

\* the loggers of an engine: None, or a list of observers 1 .. n
LoggerLists == {[given |-> FALSE, n |-> 0]}
               \cup {[given |-> TRUE, n |-> k] : k \in 0 .. MaxObservers}

\* the selectors engines are built with
EngineSelectors ==
    {RandomSamplerSelector_init(Some(<<>>), Some(<<>>)).obj,
     RandomSamplerSelector_init(Some(<<"Translate">>), Some(<<1>>)).obj}

\* MonteCarlo.__init__: the instance it leaves and the exception it raises
MonteCarlo_init(max_iter, temperature, sampler_selector, loggers) ==
    LET base == BaseMonteCarlo_init(temperature) IN
    IF base.exc # "none"
    THEN [obj |-> [exists |-> FALSE], exc |-> base.exc]
    ELSE LET made == MCStepInfo(
                 [iteration |-> NoIter,
                  temperature |-> base.obj.temperature,
                  beta |-> base.obj.beta,
                  sampler |-> "none",
                  is_accepted |-> FALSE,
                  acceptability |-> Rat(0, 1),
                  system |-> NoConfig,
                  candidate |-> NoConfig,
                  latest_accepted_energy |-> NaN,
                  delta_energy |-> NaN,
                  tags |-> <<>>])
         IN  [obj |-> [exists |-> TRUE,
                       max_iter |-> max_iter,
                       temperature |-> base.obj.temperature,
                       beta |-> base.obj.beta,
                       sampler_selector |-> sampler_selector,
                       loggers |-> loggers,
                       info |-> made.info,
                       calls |-> 0],
              exc |-> made.exc]

\* Sampler.calc_after_energy, Sampler.calc_before_energy
Sampler_calc_after_energy(atoms) == atoms.energy
Sampler_calc_before_energy(atoms) == atoms.energy

\* Sampler.calc_delta_energy
Sampler_calc_delta_energy(before, after) ==
    RSub(Sampler_calc_after_energy(after), Sampler_calc_before_energy(before))

\* BaseMonteCarlo.is_acceptable, u the value of numpy.random.rand()
is_acceptable(u, acceptability) == RLt(u, acceptability)

Event(ev, obs, iteration, info) ==
    [ev |-> ev, obs |-> obs, iteration |-> iteration, info |-> info]

\* for logger in self.loggers: logger.log(self.info)
LogAll(loggers, iteration, info) ==
    IF loggers.given
    THEN [k \in 1 .. loggers.n |-> Event("log", k, iteration, info)]
    ELSE <<>>

\* the calls a step makes on its collaborators before the acceptance test
\* (lines 78-84).  step has no handler: whatever class of exception a call
\* raises leaves step unchanged (a RandomTagSelector without target_tags
\* raises TypeError in select_tags, a sampler without tag_selector
\* AttributeError, numpy's choice and ase's get_volume ValueError, ase's
\* get_potential_energy RuntimeError or a calculator's NotImplementedError)
CollaboratorStages ==
    {"sampler_selector.select", "sampler.select_tags", "sampler.sample",
     "sampler.calc_delta_energy", "sampler.calc_acceptability"}
Exceptions ==
    {"ValueError", "TypeError", "AttributeError", "RuntimeError",
     "NotImplementedError"}
NoFail == [at |-> "none", exc |-> "none"]
Failures ==
    [at : CollaboratorStages \ {"sampler_selector.select"}, exc : Exceptions]

\* a step that swallows the exception it should raise and returns
BadStepRaise(self, exc, at, is_accepted) ==
    [exc |-> "none", at |-> "none", is_accepted |-> is_accepted,
     info |-> self.info, logged |-> <<>>, ret |-> NoConfig]

\* an exception leaves step: nothing is logged, self.info is as it was
StepRaise(self, exc, at, is_accepted) ==
    [exc |-> exc, at |-> at, is_accepted |-> is_accepted, info |-> self.info,
     logged |-> <<>>, ret |-> NoConfig]

\* MonteCarlo.step, d the draws of the step: the outcome of the selector,
\* the sampler's tags, candidate and acceptability, and the uniform variate
MonteCarlo_step(self, system, iteration, d) ==
    IF d.selected.exc # "none"
    THEN StepRaise(self, d.selected.exc, "sampler_selector.select", FALSE)
    ELSE IF d.fail.at # "none"
    THEN StepRaise(self, d.fail.exc, d.fail.at, FALSE)
    ELSE
    LET sampler == d.selected.sampler
        tags == d.tags
        candidate == d.candidate
        delta_energy == Sampler_calc_delta_energy(system, candidate)
        acceptability == d.acceptability
        is_accepted == is_acceptable(d.u, acceptability)
    IN  IF ~is_accepted /\ ~self.info.bound
        THEN StepRaise(self, "AttributeError", "self.info", is_accepted)
        ELSE
        LET latest_accepted_energy ==
                IF is_accepted THEN Sampler_calc_after_energy(candidate)
                ELSE self.info.rec.latest_accepted_energy
            made == MCStepInfo(
                [iteration |-> iteration,
                 temperature |-> self.temperature,
                 beta |-> self.beta,
                 sampler |-> sampler,
                 is_accepted |-> is_accepted,
                 acceptability |-> acceptability,
                 system |-> system,
                 candidate |-> candidate,
                 latest_accepted_energy |-> latest_accepted_energy,
                 delta_energy |-> delta_energy,
                 tags |-> tags])
        IN  IF made.exc # "none"
            THEN StepRaise(self, made.exc, "MCStepInfo", is_accepted)
            ELSE [exc |-> "none", at |-> "none", is_accepted |-> is_accepted,
                  info |-> made.info,
                  logged |-> LogAll(self.loggers, iteration, made.info),
                  ret |-> IF is_accepted THEN candidate ELSE system]

\* a run that initializes the observers whatever current_iter is
BadRunInitialize(self, current_iter) ==
    IF self.loggers.given
    THEN [k \in 1 .. self.loggers.n |-> Event("initialize", k, NoIter, NoInfo)]
    ELSE <<>>

\* MonteCarlo.run, lines 110-113: the initialize() calls it makes
MonteCarlo_run_initialize(self, current_iter) ==
    IF self.loggers.given /\ current_iter = 0
    THEN [k \in 1 .. self.loggers.n |-> Event("initialize", k, NoIter, NoInfo)]
    ELSE <<>>

-----------------------------------------------------------------------------
(* The engine's life.  MonteCarlo.__init__ binds max_iter, temperature,    *)
(* beta, sampler_selector and loggers and then builds its first MCStepInfo *)
(* with the keyword tags, which the dataclass does not have: it raises     *)
(* TypeError for every argument list that passes the temperature check,    *)
(* and info is never bound.  step and run are modelled on the instance     *)
(* __init__ leaves, the only state of a MonteCarlo on which they can be    *)
(* called.                                                                 *)

Ended == {"constructed", "returned", "raised"}

\* the draws of a step in which no sampler call raises, and those of a step
\* in which one does: what is not reached is not drawn
Draws ==
    [selected : RandomSamplerSelector_select(engine.sampler_selector),
     tags : TagDraws, candidate : Candidates,
     acceptability : AccValues, u : UValues, fail : {NoFail}]
    \cup
    {[selected |-> sel,
      tags |-> IF f.at = "sampler.select_tags" THEN <<>> ELSE t,
      candidate |-> IF f.at \in {"sampler.select_tags", "sampler.sample"}
                    THEN NoConfig ELSE c,
      acceptability |-> NaN, u |-> NaN, fail |-> f] :
        sel \in {x \in RandomSamplerSelector_select(engine.sampler_selector) :
                    x.exc = "none"},
        t \in TagDraws, c \in Candidates, f \in Failures}

\* what one execution of step did, for the properties
StepRecord(system, iteration, d, r, mark) ==
    [reached_test |-> r.at \notin CollaboratorStages, fail |-> d.fail,
     system |-> system, iteration |-> iteration,
     sampler |-> d.selected.sampler, tags |-> d.tags,
     candidate |-> d.candidate, acceptability |-> d.acceptability, u |-> d.u,
     is_accepted |-> r.is_accepted, exc |-> r.exc, ret |-> r.ret,
     mark |-> mark]

StepMark(system, iteration, r) ==
    [iteration |-> iteration, system |-> system, exc |-> r.exc, ret |-> r.ret]

Engine_Construct ==
    /\ ~engine.exists
    /\ \E max_iter \in 0 .. MaxIter, temperature \in EngineTemps,
          sampler_selector \in EngineSelectors, loggers \in LoggerLists :
        LET r == MonteCarlo_init(max_iter, temperature, sampler_selector, loggers)
        IN  /\ engine' = r.obj
            /\ call' = [pc |-> "constructed", exc |-> r.exc]
    /\ UNCHANGED <<events, carried, mc, proposer, lastTB, selector, lastSel, tagsel,
                 accept, sampling, filelog>>

\* a call of step by the user of the engine, at iteration 1: the steps at
\* the other iterations are those of run
Step_Call ==
    /\ engine.exists /\ call.pc \in Ended /\ engine.calls < MaxRuns
    /\ \E system \in SystemArgs, iteration \in {1}, d \in Draws :
        LET r == MonteCarlo_step(engine, system, iteration, d) IN
        /\ engine' = [engine EXCEPT !.info = r.info, !.calls = @ + 1]
        /\ carried' = IF r.at \notin CollaboratorStages /\ r.is_accepted
                      THEN Sampler_calc_after_energy(d.candidate) ELSE carried
        /\ events' = events \o <<Event("step", 0, iteration, NoInfo)>> \o r.logged
        /\ call' = [pc |-> IF r.exc = "none" THEN "returned" ELSE "raised",
                    kind |-> "step", system |-> system,
                    current_iter |-> iteration, i |-> iteration,
                    cur |-> system, result |-> r.ret,
                    exc |-> r.exc, at |-> r.at, start |-> Len(events),
                    steps |-> <<StepMark(system, iteration, r)>>,
                    last |-> StepRecord(system, iteration, d, r, Len(events) + 1),
                    prev_info |-> engine.info]
    /\ UNCHANGED <<mc, proposer, lastTB, selector, lastSel, tagsel,
                 accept, sampling, filelog>>

\* run, up to its loop: the observers are initialized
Run_Begin ==
    /\ engine.exists /\ call.pc \in Ended /\ engine.calls < MaxRuns
    /\ \E system \in SystemArgs, current_iter \in 0 .. MaxIter :
        /\ events' = events \o MonteCarlo_run_initialize(engine, current_iter)
        /\ call' = [pc |-> "running", kind |-> "run", system |-> system,
                    current_iter |-> current_iter, i |-> current_iter,
                    cur |-> system, result |-> NoConfig,
                    exc |-> "none", at |-> "none", start |-> Len(events),
                    steps |-> <<>>,
                    last |-> [reached_test |-> FALSE],
                    prev_info |-> engine.info]
    /\ engine' = [engine EXCEPT !.calls = @ + 1]
    /\ UNCHANGED <<carried, mc, proposer, lastTB, selector, lastSel, tagsel,
                 accept, sampling, filelog>>

\* one iteration of run's loop: system = self.step(system, iteration=i)
Run_Step ==
    /\ call.pc = "running" /\ call.i < engine.max_iter
    /\ \E d \in Draws :
        LET r == MonteCarlo_step(engine, call.cur, call.i, d) IN
        /\ engine' = [engine EXCEPT !.info = r.info]
        /\ carried' = IF r.at \notin CollaboratorStages /\ r.is_accepted
                      THEN Sampler_calc_after_energy(d.candidate) ELSE carried
        /\ events' = events \o <<Event("step", 0, call.i, NoInfo)>> \o r.logged
        /\ call' = [call EXCEPT
                       !.pc = IF r.exc = "none" THEN "running" ELSE "raised",
                       !.i = IF r.exc = "none" THEN @ + 1 ELSE @,
                       !.cur = IF r.exc = "none" THEN r.ret ELSE @,
                       !.exc = r.exc, !.at = r.at,
                       !.steps = Append(@, StepMark(call.cur, call.i, r)),
                       !.last = StepRecord(call.cur, call.i, d, r, Len(events) + 1),
                       !.prev_info = engine.info]
    /\ UNCHANGED <<mc, proposer, lastTB, selector, lastSel, tagsel,
                 accept, sampling, filelog>>

\* run's loop is over: return system
Run_Return ==
    /\ call.pc = "running" /\ call.i >= engine.max_iter
    /\ call' = [call EXCEPT !.pc = "returned", !.result = call.cur]
    /\ UNCHANGED <<engine, events, carried, mc, proposer, lastTB, selector, lastSel,
                 tagsel, accept, sampling, filelog>>

Init == ThermoAtRest /\ SelectorAtRest /\ TagsAtRest /\ EngineAtRest
    /\ SamplersAtRest

Next ==
    \/ Engine_Construct
    \/ Step_Call
    \/ Run_Begin
    \/ Run_Step
    \/ Run_Return

Spec == Init /\ [][Next]_vars

InCall == call.pc \in {"running", "returned", "raised"}

\* a step has been executed as far as the acceptance test
StepTested == InCall /\ call.last.reached_test

(* C2: a step that reaches the acceptance test accepts exactly when        *)
(* u < acceptability, and returns the candidate when it accepts and the    *)
(* configuration it was given when it does not; acceptability 1 always     *)
(* accepts, acceptability 0 never.                                         *)
C2_StepReturnsClaim ==
    StepTested =>
        /\ call.last.is_accepted = RLt(call.last.u, call.last.acceptability)
        /\ call.last.acceptability = ROne => call.last.is_accepted
        /\ call.last.acceptability = Rat(0, 1) => ~call.last.is_accepted
        /\ call.last.exc = "none"
        /\ call.last.ret = IF call.last.is_accepted THEN call.last.candidate
                           ELSE call.last.system

(* C3: the StepInfo of a step records as latest_accepted_energy the        *)
(* energy of the candidate when the step is accepted, and the value of the *)
(* engine's previous StepInfo when it is rejected.                         *)
C3_LatestEnergyClaim ==
    StepTested =>
        /\ engine.info.bound
        /\ engine.info.rec.iteration = call.last.iteration
        /\ engine.info.rec.latest_accepted_energy =
               IF call.last.is_accepted
               THEN Sampler_calc_after_energy(call.last.candidate)
               ELSE call.prev_info.rec.latest_accepted_energy

\* the events the engine has appended since the last step began
SinceStep == SubSeq(events, call.last.mark + 1, Len(events))

(* C4: every step that reaches the acceptance test, accepted or rejected,  *)
(* builds one StepInfo holding its iteration, temperature, beta, sampler,  *)
(* tags, is_accepted, acceptability, configuration, candidate,             *)
(* latest_accepted_energy and delta_energy, and calls log with it once on  *)
(* every observer, in registration order, before it returns.               *)
C4_StepInfoLoggedClaim ==
    StepTested =>
        /\ engine.info.bound
        /\ DOMAIN engine.info.rec = MCStepInfoFields \cup {"tags"}
        /\ engine.info.rec.iteration = call.last.iteration
        /\ engine.info.rec.temperature = engine.temperature
        /\ engine.info.rec.beta = engine.beta
        /\ engine.info.rec.sampler = call.last.sampler
        /\ engine.info.rec.tags = call.last.tags
        /\ engine.info.rec.is_accepted = call.last.is_accepted
        /\ engine.info.rec.acceptability = call.last.acceptability
        /\ engine.info.rec.system = call.last.system
        /\ engine.info.rec.candidate = call.last.candidate
        /\ engine.info.rec.delta_energy =
               RSub(call.last.candidate.energy, call.last.system.energy)
        /\ SinceStep = LogAll(engine.loggers, call.last.iteration, engine.info)
        /\ call.last.exc = "none"

\* the events of the call in progress or last ended
OfCall == SubSeq(events, call.start + 1, Len(events))
Initializes == SelectSeq(OfCall, LAMBDA e : e.ev = "initialize")

(* C5: run(configuration, current_iter) with current_iter = 0 calls        *)
(* initialize() once on every observer, before its first step; with        *)
(* current_iter > 0 it calls initialize() on none.                         *)
C5_RunInitializes ==
    (InCall /\ call.kind = "run") =>
        IF call.current_iter = 0
        THEN /\ Len(Initializes) = engine.loggers.n
             /\ \A k \in 1 .. engine.loggers.n : Initializes[k].obs = k
             /\ \A i, j \in 1 .. Len(OfCall) :
                    (OfCall[i].ev = "initialize" /\ OfCall[j].ev = "step") => i < j
        ELSE Initializes = <<>>

\* a run from iteration 0 with two observers has begun its first step
C5_Witness ==
    /\ InCall /\ call.kind = "run" /\ call.current_iter = 0
    /\ engine.loggers.given /\ engine.loggers.n = 2
    /\ Len(call.steps) = 1
    /\ Len(OfCall) >= 3
    /\ OfCall[1].ev = "initialize" /\ OfCall[2].ev = "initialize"
    /\ OfCall[3].ev = "step"

(* C6: a run in which no collaborator raises executes step once for each   *)
(* iteration current_iter, ..., max_iter - 1 in ascending order, giving    *)
(* each step the configuration the previous one returned and the first     *)
(* run's argument, and returns the last step's result, or its argument     *)
(* when current_iter >= max_iter.                                          *)
C6_RunLoopClaim ==
    (call.pc \in {"returned", "raised"} /\ call.kind = "run"
     /\ call.at \notin CollaboratorStages) =>
        LET n == IF engine.max_iter > call.current_iter
                 THEN engine.max_iter - call.current_iter ELSE 0
        IN  /\ call.pc = "returned"
            /\ Len(call.steps) = n
            /\ \A j \in 1 .. n :
                   /\ call.steps[j].iteration = call.current_iter + j - 1
                   /\ call.steps[j].exc = "none"
                   /\ call.steps[j].system = IF j = 1 THEN call.system
                                             ELSE call.steps[j - 1].ret
            /\ call.result = IF n = 0 THEN call.system ELSE call.steps[n].ret

\* a step of the call in progress or last ended has been executed
Stepped == InCall /\ Len(call.steps) > 0

(* C17: when a stage of a step raises (the sampler selection, the tag      *)
(* selection, the move generation, the energy evaluation, the              *)
(* acceptability or the building of the StepInfo), the exception leaves    *)
(* step and run: the engine's StepInfo is as it was, no observer is called *)
(* after the raising stage, the raising step is the call's last, every     *)
(* earlier step of the call returned, and every iteration was executed     *)
(* once.                                                                   *)
C17_ErrorsPropagate ==
    Stepped =>
        LET n == Len(call.steps) IN
        /\ call.last.fail.at # "none" =>
               /\ call.pc = "raised"
               /\ call.exc = call.last.fail.exc
               /\ call.at = call.last.fail.at
               /\ ~call.last.reached_test
        /\ call.last.exc # "none" => call.pc = "raised" /\ call.exc = call.last.exc
        /\ call.pc = "raised" =>
               /\ call.steps[n].exc = call.exc /\ call.exc # "none"
               /\ call.steps[n].iteration = call.i
               /\ n = call.i - call.current_iter + 1
               /\ \A j \in 1 .. n - 1 : call.steps[j].exc = "none"
               /\ \A j \in 1 .. n : call.steps[j].iteration = call.current_iter + j - 1
               /\ SinceStep = <<>>
               /\ engine.info = call.prev_info
               /\ Len(SelectSeq(OfCall, LAMBDA e : e.ev = "step")) = n

\* the first step of a run of two iterations raised TypeError in
\* sampler.select_tags, after two observers were initialized: one step was
\* made and nothing logged
C17_Witness ==
    /\ Stepped /\ call.kind = "run" /\ call.pc = "raised"
    /\ call.current_iter = 0 /\ engine.max_iter = 2
    /\ call.at = "sampler.select_tags" /\ call.exc = "TypeError"
    /\ call.last.fail.exc = "TypeError"
    /\ engine.loggers.given /\ engine.loggers.n = 2
    /\ Len(call.steps) = 1
    /\ Len(OfCall) = 3

(* C19: the latest_accepted_energy the engine carries in its StepInfo is   *)
(* NaN from construction until a step is accepted and from then on the     *)
(* energy of the candidate of the last accepted step, through every later  *)
(* step and every later run on the engine.                                 *)
C19_CarriedEnergyClaim ==
    engine.exists =>
        /\ engine.info.bound
        /\ engine.info.rec.latest_accepted_energy = carried

-----------------------------------------------------------------------------
(* The samplers' calc_acceptability.                                       *)
(*                                                                         *)
(* The quantities of this section are floats whose sizes range from 1e-60  *)
(* (the cube of a thermal de Broglie wavelength) to 1e+60: they are        *)
(* decimal floating-point numbers m * 10^e with a signed mantissa of four  *)
(* digits, every operation rounding its result to four digits.  numpy      *)
(* divides by zero with a RuntimeWarning and no exception: x / 0 is inf    *)
(* (no quantity that is divided by zero is negative), 0 / 0 is nan.  beta, *)
(* delta_energy and the volume are integers (or nan), and the exponent     *)
(* beta * delta_energy is computed exactly.                                *)

MaxDelta == 1       \* delta_energy is an integer of -MaxDelta .. MaxDelta
MaxVolume == 2      \* get_volume() is an integer of 0 .. MaxVolume

IsNaN(a) == a.d = 0 /\ a.n = 0
IsInf(a) == a.d = 0 /\ a.n # 0
IsFinite(a) == a.d > 0

\* a * b on rationals with inf and nan, a and b >= 0
FMul(a, b) ==
    IF IsNaN(a) \/ IsNaN(b) THEN NaN
    ELSE IF IsInf(a) \/ IsInf(b)
    THEN (IF a.n = 0 \/ b.n = 0 THEN NaN ELSE Inf)
    ELSE RMul(a, b)

\* a / b on rationals with inf and nan, a and b >= 0
FDiv(a, b) ==
    IF IsNaN(a) \/ IsNaN(b) THEN NaN
    ELSE IF IsInf(a) THEN (IF IsInf(b) THEN NaN ELSE Inf)
    ELSE IF IsInf(b) THEN Rat(0, 1)
    ELSE IF b.n = 0 THEN (IF a.n = 0 THEN NaN ELSE Inf)
    ELSE RDiv(a, b)

\* -a for a finite or nan
FNeg(a) == Rat(-a.n, a.d)

\* the mantissa m of a float that is not 0: MantLo <= |m| < MantHi
MantLo == 10 ^ 3
MantHi == 10 ^ 4

\* m * 10^e, m >= 0, rounded to four digits
RECURSIVE Round(_, _)
Round(m, e) ==
    IF m = 0 THEN [k |-> "num", m |-> 0, e |-> 0]
    ELSE IF m >= 10 * MantHi THEN Round(m \div 10, e + 1)
    ELSE IF m >= MantHi THEN Round((m + 5) \div 10, e + 1)
    ELSE IF m < MantLo THEN Round(m * 10, e - 1)
    ELSE [k |-> "num", m |-> m, e |-> e]

\* the float m * 10^e
Float(m, e) ==
    IF m < 0 THEN [Round(-m, e) EXCEPT !.m = -@] ELSE Round(m, e)

DInf == [k |-> "inf", m |-> 0, e |-> 0]
DNaN == [k |-> "nan", m |-> 0, e |-> 0]
DZero == Float(0, 0)
DOne == Float(1, 0)

\* float64 a * b
DMul(a, b) ==
    IF a.k = "nan" \/ b.k = "nan" THEN DNaN
    ELSE IF a.k = "inf" THEN (IF b.k = "num" /\ b.m = 0 THEN DNaN ELSE DInf)
    ELSE IF b.k = "inf" THEN (IF a.m = 0 THEN DNaN ELSE DInf)
    ELSE Float(a.m * b.m, a.e + b.e)

\* float64 a / b
DDiv(a, b) ==
    IF a.k = "nan" \/ b.k = "nan" THEN DNaN
    ELSE IF a.k = "inf" THEN (IF b.k = "inf" THEN DNaN ELSE DInf)
    ELSE IF b.k = "inf" THEN DZero
    ELSE IF b.m = 0 THEN (IF a.m = 0 THEN DNaN ELSE DInf)
    ELSE LET q == (Abs(a.m) * MantHi) \div Abs(b.m)
         IN  Float(IF (a.m < 0) = (b.m < 0) THEN q ELSE -q, a.e - b.e - 4)

\* -a
DNeg(a) == IF a.k = "num" THEN [a EXCEPT !.m = -@] ELSE a

\* float64 a + b
DAdd(a, b) ==
    IF a.k = "nan" \/ b.k = "nan" THEN DNaN
    ELSE IF a.k = "inf" \/ b.k = "inf" THEN DInf
    ELSE IF a.m = 0 THEN b
    ELSE IF b.m = 0 THEN a
    ELSE LET hi == IF a.e >= b.e THEN a ELSE b
             lo == IF a.e >= b.e THEN b ELSE a
             d == hi.e - lo.e
         IN  IF d > 4 THEN hi ELSE Float(hi.m * 10 ^ d + lo.m, lo.e)

\* float64 a - b
DSub(a, b) == DAdd(a, DNeg(b))

\* a < b on floats >= 0: False when either is nan
DLt(a, b) ==
    IF a.k = "nan" \/ b.k = "nan" THEN FALSE
    ELSE IF a.k = "inf" THEN FALSE
    ELSE IF b.k = "inf" THEN TRUE
    ELSE IF b.m = 0 THEN FALSE
    ELSE IF a.m = 0 THEN TRUE
    ELSE a.e < b.e \/ (a.e = b.e /\ a.m < b.m)

\* the largest r of lo .. hi with r * r <= n
RECURSIVE ISqrt(_, _, _)
ISqrt(n, lo, hi) ==
    IF lo = hi THEN lo
    ELSE LET mid == (lo + hi + 1) \div 2
         IN  IF mid * mid <= n THEN ISqrt(n, mid, hi) ELSE ISqrt(n, lo, mid - 1)

\* numpy.sqrt on a float >= 0
np_sqrt(a) ==
    IF a.k # "num" \/ a.m = 0 THEN a
    ELSE LET odd == a.e % 2 # 0
             m2 == IF odd THEN a.m * 10 ELSE a.m
             e2 == IF odd THEN a.e - 1 ELSE a.e
         IN  Float(ISqrt(m2 * MantHi, 0, MantHi * 4), (e2 - 4) \div 2)

\* the float of an integer k >= 0, and of a rational >= 0, inf or nan
FloatOf(k) == Float(k, 0)
AsFloat(x) ==
    IF IsNaN(x) THEN DNaN
    ELSE IF IsInf(x) THEN DInf
    ELSE DDiv(FloatOf(x.n), FloatOf(x.d))

\* the number a float with a small exponent stands for, as a rational
AsRat(a) ==
    IF a.k = "nan" THEN NaN
    ELSE IF a.k = "inf" THEN Inf
    ELSE IF a.e >= 0 THEN Rat(a.m * 10 ^ a.e, 1)
    ELSE Rat(a.m, 10 ^ (-a.e))

\* Python's min(1, x): x when x < 1, and 1 otherwise, so 1 for inf and nan
Min1(x) == IF DLt(x, DOne) THEN x ELSE DOne

\* numpy.exp on an integer or nan: e = 2.718281828, and e^k a product
np_e == Float(271828182, -8)
RECURSIVE DPow(_, _)
DPow(a, k) == IF k = 0 THEN DOne ELSE DMul(DPow(a, k - 1), a)
np_exp(x) ==
    IF IsNaN(x) THEN DNaN
    ELSE IF x.n >= 0 THEN DPow(np_e, x.n)
    ELSE DDiv(DOne, DPow(np_e, -x.n))

\* ase.units: _Nav (1/mol), _hplanck (J s), _e (C), J = 1 / _e; numpy.pi
units_Nav == Float(602214085, 15)
units_hplanck == Float(662607004, -42)
units_e == Float(160217662, -27)
units_J == DDiv(DOne, units_e)
np_pi == Float(314159265, -8)

\* calc_thermal_de_broglie(molecular_weight, beta): beta is divided by
\* units.J, and a molecular weight of 0 gives h_planck / 0.0 = inf
calc_thermal_de_broglie(molecular_weight, beta) ==
    LET meter_to_ang == Float(1, 10)
        Nav == units_Nav
        h_planck == units_hplanck
        molecular_weight_kg == DMul(molecular_weight, Float(1, -3))
        mass == DDiv(molecular_weight_kg, Nav)
        beta_J == DDiv(beta, units_J)
        dbl == DMul(DDiv(h_planck,
                         np_sqrt(DDiv(DMul(DMul(FloatOf(2), np_pi), mass),
                                      beta_J))),
                    meter_to_ang)
    IN  dbl

\* an Atoms object: its sites and its energy evaluator
Symbols == {"H", "O"}
NoCalc == "none"
Site(tag, symbol, pos) == [tag |-> tag, symbol |-> symbol, pos |-> pos]
MkAtoms(sites, calc) == [sites |-> sites, calc |-> calc]
NoAtoms == MkAtoms(<<>>, "unbound")

\* Atoms.get_masses(): ase's atomic masses, 1.008 for H and 15.999 for O
AtomicMass(symbol) == IF symbol = "H" THEN Float(1008, -3) ELSE Float(15999, -3)

\* sum(atoms.get_masses()): 0 for an Atoms without sites
RECURSIVE SumMasses(_, _)
SumMasses(sites, n) ==
    IF n = 0 THEN DZero
    ELSE DAdd(SumMasses(sites, n - 1), AtomicMass(sites[n].symbol))

\* AddSampler.__init__, RemoveSampler.__init__
AddSampler_init(tag_selector, additive) ==
    [class |-> "AddSampler", tag_selector |-> tag_selector, additive |-> additive]
RemoveSampler_init(tag_selector, additive) ==
    [class |-> "RemoveSampler", tag_selector |-> tag_selector,
     additive |-> additive]

\* the arguments of the calls: beta > 0, delta_energy an integer or nan
AcceptBetas == {Rat(1, 1), Rat(2, 1)}
DeltaValues == {Rat(e, 1) : e \in -MaxDelta .. MaxDelta} \cup {NaN}

\* the additives of AddSampler and RemoveSampler: a molecule of one site, of
\* two, and an Atoms without sites
Additives ==
    {MkAtoms(<<Site(0, "H", FloatOf(0))>>, NoCalc),
     MkAtoms(<<Site(0, "O", FloatOf(0)), Site(0, "H", FloatOf(1))>>, NoCalc)}
AcceptAdditives == Additives \cup {MkAtoms(<<>>, NoCalc)}

\* mass = sum(self.additive.get_masses()) and
\* dbl = calc_thermal_de_broglie(molecular_weight=mass, beta=beta), for the
\* additives and the betas of the calls
Wavelengths ==
    [additive \in AcceptAdditives, beta \in AcceptBetas |->
        LET mass == SumMasses(additive.sites, Len(additive.sites))
        IN  calc_thermal_de_broglie(mass, AsFloat(beta))]

\* a configuration as calc_acceptability sees it: get_tags(), get_volume()
Volumes == {Rat(v, 1) : v \in 0 .. MaxVolume}
Afters == [tags : Configurations, volume : Volumes]

\* a Translate law with the sign of the exponent lost
BadTranslateAccept(before, after, beta, delta_energy) ==
    Min1(np_exp(FMul(beta, delta_energy)))

\* TranslateSampler.calc_acceptability
TranslateSampler_calc_acceptability(before, after, beta, delta_energy) ==
    Min1(np_exp(FMul(FNeg(beta), delta_energy)))

\* EulerRotateSampler.calc_acceptability
EulerRotateSampler_calc_acceptability(before, after, beta, delta_energy) ==
    Min1(np_exp(FMul(FNeg(beta), delta_energy)))

\* XYZAxesRotateSampler.calc_acceptability
XYZAxesRotateSampler_calc_acceptability(before, after, beta, delta_energy) ==
    Min1(np_exp(FMul(FNeg(beta), delta_energy)))

\* SiteExchangeSampler.calc_acceptability
SiteExchangeSampler_calc_acceptability(before, after, beta, delta_energy) ==
    Min1(np_exp(FMul(FNeg(beta), delta_energy)))

\* ChemicalSymbolExchangeSampler.calc_acceptability
ChemicalSymbolExchangeSampler_calc_acceptability(before, after, beta, delta_energy) ==
    Min1(np_exp(FMul(FNeg(beta), delta_energy)))

\* len(set([i for i in after.get_tags() if i != 0]))
NumMolecule(after) == Cardinality({t \in Range(after.tags) : t # 0})

\* dbl**3
Cube(x) == DMul(DMul(x, x), x)

\* an Add law that returns its ratio unclamped
BadAddAccept(self, before, after, beta, delta_energy) ==
    LET dbl == Wavelengths[self.additive, beta]
        num_molecule == NumMolecule(after)
        vol == AsFloat(after.volume)
    IN  DDiv(DMul(np_exp(FMul(beta, delta_energy)), vol),
             DMul(FloatOf(num_molecule), Cube(dbl)))

\* AddSampler.calc_acceptability
AddSampler_calc_acceptability(self, before, after, beta, delta_energy) ==
    LET dbl == Wavelengths[self.additive, beta]
        num_molecule == NumMolecule(after)
        vol == AsFloat(after.volume)
        acceptability ==
            DDiv(DMul(np_exp(FMul(beta, delta_energy)), vol),
                 DMul(FloatOf(num_molecule), Cube(dbl)))
    IN  Min1(acceptability)

\* RemoveSampler.calc_acceptability
RemoveSampler_calc_acceptability(self, before, after, beta, delta_energy) ==
    LET dbl == Wavelengths[self.additive, beta]
        num_molecule == NumMolecule(after)
        vol == AsFloat(after.volume)
        acceptability ==
            DMul(DDiv(np_exp(FMul(beta, delta_energy)), vol),
                 DMul(FloatOf(num_molecule + 1), Cube(dbl)))
    IN  Min1(acceptability)

CanonicalVariants ==
    {"Translate", "EulerRotate", "XYZRotate", "SiteExchange", "SymbolExchange"}

\* the canonical variant's method
Canonical_calc_acceptability(variant, before, after, beta, delta_energy) ==
    CASE variant = "Translate" ->
             TranslateSampler_calc_acceptability(before, after, beta, delta_energy)
      [] variant = "EulerRotate" ->
             EulerRotateSampler_calc_acceptability(before, after, beta, delta_energy)
      [] variant = "XYZRotate" ->
             XYZAxesRotateSampler_calc_acceptability(before, after, beta, delta_energy)
      [] variant = "SiteExchange" ->
             SiteExchangeSampler_calc_acceptability(before, after, beta, delta_energy)
      [] variant = "SymbolExchange" ->
             ChemicalSymbolExchangeSampler_calc_acceptability(before, after, beta,
                                                              delta_energy)

\* delta pairs, the smaller first
DeltaPairs ==
    {p \in DeltaValues \X DeltaValues :
        IsNaN(p[1]) \/ IsNaN(p[2]) \/ p[1].n <= p[2].n}

AcceptRecord(variant, additive, after, beta, p, a1, a2) ==
    [variant |-> variant, additive |-> additive, after |-> after, beta |-> beta,
     delta1 |-> p[1], delta2 |-> p[2], a1 |-> a1, a2 |-> a2]

\* the samplers are constructed
Canonical_Construct ==
    /\ accept = NoAccept
    /\ \E variant \in CanonicalVariants :
        accept' = [variant |-> "none", self |-> [class |-> variant]]
    /\ UNCHANGED <<mc, proposer, lastTB, selector, lastSel, tagsel, engine, call,
                   events, carried, sampling, filelog>>

Add_Construct ==
    /\ accept = NoAccept
    /\ \E additive \in AcceptAdditives :
        accept' = [variant |-> "none", self |-> AddSampler_init(None, additive)]
    /\ UNCHANGED <<mc, proposer, lastTB, selector, lastSel, tagsel, engine, call,
                   events, carried, sampling, filelog>>

Remove_Construct ==
    /\ accept = NoAccept
    /\ \E additive \in AcceptAdditives :
        accept' = [variant |-> "none", self |-> RemoveSampler_init(None, additive)]
    /\ UNCHANGED <<mc, proposer, lastTB, selector, lastSel, tagsel, engine, call,
                   events, carried, sampling, filelog>>

\* a sampler was constructed and has not been asked
Built(classes) ==
    /\ accept.variant = "none" /\ accept # NoAccept
    /\ accept.self.class \in classes

\* A sampler is asked for the acceptability of the same move at two values
\* of delta_energy; calc_acceptability keeps no state, and one pair of calls
\* is made in a behaviour.
Canonical_CalcAcceptability ==
    /\ Built(CanonicalVariants)
    /\ \E after \in Afters, beta \in AcceptBetas, p \in DeltaPairs :
        LET variant == accept.self.class IN
        accept' = AcceptRecord(variant, NoAtoms, after, beta, p,
                      Canonical_calc_acceptability(variant, after, after, beta, p[1]),
                      Canonical_calc_acceptability(variant, after, after, beta, p[2]))
    /\ UNCHANGED <<mc, proposer, lastTB, selector, lastSel, tagsel, engine, call,
                   events, carried, sampling, filelog>>

Add_CalcAcceptability ==
    /\ Built({"AddSampler"})
    /\ \E after \in Afters, beta \in AcceptBetas, p \in DeltaPairs :
        LET self == accept.self IN
        accept' = AcceptRecord("Add", self.additive, after, beta, p,
                      AddSampler_calc_acceptability(self, after, after, beta, p[1]),
                      AddSampler_calc_acceptability(self, after, after, beta, p[2]))
    /\ UNCHANGED <<mc, proposer, lastTB, selector, lastSel, tagsel, engine, call,
                   events, carried, sampling, filelog>>

Remove_CalcAcceptability ==
    /\ Built({"RemoveSampler"})
    /\ \E after \in Afters, beta \in AcceptBetas, p \in DeltaPairs :
        LET self == accept.self IN
        accept' = AcceptRecord("Remove", self.additive, after, beta, p,
                      RemoveSampler_calc_acceptability(self, after, after, beta, p[1]),
                      RemoveSampler_calc_acceptability(self, after, after, beta, p[2]))
    /\ UNCHANGED <<mc, proposer, lastTB, selector, lastSel, tagsel, engine, call,
                   events, carried, sampling, filelog>>

InitAccept == ThermoAtRest /\ SelectorAtRest /\ TagsAtRest /\ EngineAtRest
    /\ SamplersAtRest

NextAccept ==
    \/ Canonical_Construct
    \/ Add_Construct
    \/ Remove_Construct
    \/ Canonical_CalcAcceptability
    \/ Add_CalcAcceptability
    \/ Remove_CalcAcceptability

SpecAccept == InitAccept /\ [][NextAccept]_vars

Asked == accept.variant # "none"

\* a finite float a with 0 <= a <= 1
InUnitInterval(a) == a.k = "num" /\ a.m >= 0 /\ ~DLt(DOne, a)

\* the wavelength of the call the record is about
DblOf(additive, beta) == Wavelengths[additive, beta]

(* C11: whatever the sampler, delta_energy (nan included), beta > 0,       *)
(* volume and molecule count (0 included), calc_acceptability returns a    *)
(* finite number a with 0 <= a <= 1.                                       *)
C11_AcceptabilityInUnitInterval ==
    Asked => InUnitInterval(accept.a1) /\ InUnitInterval(accept.a2)

\* Add of an H atom was asked about a configuration of two sites and no
\* molecule, where its ratio is a division by zero
C11_Witness ==
    /\ accept.variant = "Add"
    /\ Len(accept.additive.sites) = 1
    /\ accept.additive.sites[1].symbol = "H"
    /\ accept.after.tags = <<0, 0>>
    /\ NumMolecule(accept.after) = 0
    /\ accept.after.volume = Rat(1, 1)
    /\ accept.beta = Rat(1, 1)
    /\ DblOf(accept.additive, accept.beta) = Float(2587, -23)
    /\ accept.delta1 = Rat(-1, 1) /\ accept.a1 = DOne
    /\ accept.delta2 = Rat(1, 1) /\ accept.a2 = DOne

(* C12: a canonical sampler (Translate, EulerRotate, XYZRotate,            *)
(* SiteExchange, SymbolExchange) returns exactly 1 for every beta > 0 and  *)
(* every delta_energy <= 0, and an acceptability of 1 passes the           *)
(* acceptance test for every uniform variate.                              *)
C12_CanonicalSaturates ==
    (Asked /\ accept.variant \in CanonicalVariants) =>
        /\ (IsFinite(accept.delta1) /\ accept.delta1.n <= 0) =>
               /\ accept.a1 = DOne
               /\ \A u \in UValues : is_acceptable(u, AsRat(accept.a1))
        /\ (IsFinite(accept.delta2) /\ accept.delta2.n <= 0) =>
               /\ accept.a2 = DOne
               /\ \A u \in UValues : is_acceptable(u, AsRat(accept.a2))

\* SiteExchange was asked at beta = 2 about delta_energy -1 and 1
C12_Witness ==
    /\ accept.variant = "SiteExchange"
    /\ accept.beta = Rat(2, 1)
    /\ accept.delta1 = Rat(-1, 1) /\ accept.a1 = DOne
    /\ accept.delta2 = Rat(1, 1) /\ accept.a2 = Float(1353, -4)

(* C13: for every sampler, Add and Remove included, with beta and the      *)
(* configurations fixed, calc_acceptability does not increase when         *)
(* delta_energy increases.                                                 *)
C13_MonotoneClaim ==
    (Asked /\ IsFinite(accept.delta1) /\ IsFinite(accept.delta2)
     /\ accept.delta1.n <= accept.delta2.n) =>
        ~DLt(accept.a1, accept.a2)

-----------------------------------------------------------------------------
(* The samplers' sample and select_tags.                                   *)
(*                                                                         *)
(* An Atoms object is a list of sites, each with a tag, a chemical symbol  *)
(* and a position, and a reference to an energy evaluator (calc).          *)
(* Positions are points of a line, floats of the arithmetic above: a       *)
(* translation adds a number, a rotation about the centre of mass (the     *)
(* mean of the positions weighted with ase's atomic masses) by 180 degrees *)
(* reflects, one by 0 degrees leaves the sites where they are.  Python     *)
(* objects live in a heap, a                                               *)
(* sequence of Atoms indexed by reference: copy(), indexing by a mask and  *)
(* + allocate a new object, set_positions, set_tags, += and the assignment *)
(* of calc change the object they are applied to.                          *)

MaxAtoms == 2       \* sites of a configuration given to sample
MaxSel == 2         \* tags given to sample
MaxPairs == 1       \* pairs of tags given to sample

FSub(a, b) == IF IsNaN(a) \/ IsNaN(b) THEN NaN ELSE RSub(a, b)

\* a new object on the heap; its reference is the heap's new length
Alloc(h, atoms) == Append(h, atoms)

\* Atoms.copy(): the sites, without the evaluator
Copy(atoms) == MkAtoms(atoms.sites, NoCalc)

\* atoms[mask], the mask true on the sites with a tag of tagset, and
\* atoms[~mask]: a new Atoms of the sites the mask keeps
Keep(atoms, tagset) ==
    MkAtoms(SelectSeq(atoms.sites, LAMBDA s : s.tag \in tagset), NoCalc)
Drop(atoms, tagset) ==
    MkAtoms(SelectSeq(atoms.sites, LAMBDA s : s.tag \notin tagset), NoCalc)

\* a + b: a new Atoms
Concat(a, b) == MkAtoms(a.sites \o b.sites, NoCalc)

TagsOf(atoms) == [i \in 1 .. Len(atoms.sites) |-> atoms.sites[i].tag]

\* sum(m * r) over the sites, m of Atoms.get_masses()
RECURSIVE MomentSum(_, _)
MomentSum(sites, k) ==
    IF k = 0 THEN DZero
    ELSE DAdd(MomentSum(sites, k - 1),
              DMul(AtomicMass(sites[k].symbol), sites[k].pos))

\* Atoms.get_center_of_mass(): sum(m * r) / sum(m), nan for an Atoms
\* without sites (0 / 0)
CenterOfMass(atoms) ==
    LET n == Len(atoms.sites)
    IN  DDiv(MomentSum(atoms.sites, n), SumMasses(atoms.sites, n))

\* Atoms.translate(v)
Translated(atoms, v) ==
    [atoms EXCEPT !.sites =
        [i \in 1 .. Len(atoms.sites) |->
            [atoms.sites[i] EXCEPT !.pos = DAdd(@, v)]]]

\* Atoms.euler_rotate / rotate about the centre of mass, by 0 or 180 degrees
Angles == {0, 180}
Rotated(atoms, angle) ==
    IF angle = 0 THEN atoms
    ELSE LET c == CenterOfMass(atoms)
         IN  [atoms EXCEPT !.sites =
                 [i \in 1 .. Len(atoms.sites) |->
                     [atoms.sites[i] EXCEPT !.pos = DAdd(DNeg(DSub(@, c)), c)]]]

SampleReturn(h, ret) == [exc |-> "none", heap |-> h, ret |-> ret]
SampleRaise(h, exc) == [exc |-> exc, heap |-> h, ret |-> 0]

\* TranslateSampler.sample, v the translation drawn.  The mask of a
\* configuration without sites is an empty float array, which ~ rejects.
TranslateSampler_sample(h, system, tags, v) ==
    LET tagset == Range(tags) IN
    IF Len(h[system].sites) = 0 THEN SampleRaise(h, "TypeError")
    ELSE
    LET h1 == Alloc(h, Drop(h[system], tagset))
        main_system == Len(h1)
        h2 == Alloc(h1, Keep(h[system], tagset))
        sub_system == Len(h2)
        h3 == [h2 EXCEPT ![sub_system] = Translated(@, v)]
        h4 == Alloc(h3, Concat(h3[main_system], h3[sub_system]))
        candidate == Len(h4)
        h5 == [h4 EXCEPT ![candidate].calc = h4[system].calc]
    IN  SampleReturn(h5, candidate)

\* the loop of EulerRotateSampler.sample and XYZAxesRotateSampler.sample
RECURSIVE RotateLoop(_, _, _, _, _)
RotateLoop(h, candidate, tags, angles, k) ==
    IF k > Len(tags) THEN [heap |-> h, candidate |-> candidate]
    ELSE
    LET tag == tags[k]
        h1 == Alloc(h, Drop(h[candidate], {tag}))
        main_system == Len(h1)
        h2 == Alloc(h1, Keep(h[candidate], {tag}))
        sub_system == Len(h2)
        h3 == [h2 EXCEPT ![sub_system] = Rotated(@, angles[k])]
        h4 == Alloc(h3, Concat(h3[main_system], h3[sub_system]))
    IN  RotateLoop(h4, Len(h4), tags, angles, k + 1)

\* EulerRotateSampler.sample, angles the rotation drawn for each tag
EulerRotateSampler_sample(h, system, tags, angles) ==
    LET h1 == Alloc(h, Copy(h[system]))
        r == RotateLoop(h1, Len(h1), tags, angles, 1)
        h2 == [r.heap EXCEPT ![r.candidate].calc = r.heap[system].calc]
    IN  SampleReturn(h2, r.candidate)

\* XYZAxesRotateSampler.sample: the three rotations about the axes, on a
\* line, compose to one of the rotations drawn
XYZAxesRotateSampler_sample(h, system, tags, angles) ==
    LET h1 == Alloc(h, Copy(h[system]))
        r == RotateLoop(h1, Len(h1), tags, angles, 1)
        h2 == [r.heap EXCEPT ![r.candidate].calc = r.heap[system].calc]
    IN  SampleReturn(h2, r.candidate)

\* the loop of AddSampler.sample, d the place and the rotation drawn
RECURSIVE AddLoop(_, _, _, _, _, _)
AddLoop(self, h, candidate, tags, d, k) ==
    IF k > Len(tags) THEN h
    ELSE
    LET tag == tags[k]
        h1 == Alloc(h, Copy(self.additive))
        additive == Len(h1)
        h2 == [h1 EXCEPT ![additive].sites =
                  [i \in 1 .. Len(@) |-> [@[i] EXCEPT !.tag = tag]]]
        translate_vector == DSub(d.place, CenterOfMass(h2[additive]))
        h3 == [h2 EXCEPT ![additive] = Translated(@, translate_vector)]
        h4 == [h3 EXCEPT ![additive] = Rotated(@, d.angle)]
        h5 == [h4 EXCEPT ![candidate].sites = @ \o h4[additive].sites]
    IN  AddLoop(self, h5, candidate, tags, d, k + 1)

\* AddSampler.sample: line 357 returns system
AddSampler_sample(self, h, system, tags, d) ==
    LET h1 == Alloc(h, Copy(h[system]))
        candidate == Len(h1)
        h2 == AddLoop(self, h1, candidate, tags, d, 1)
        h3 == [h2 EXCEPT ![candidate].calc = h2[system].calc]
    IN  SampleReturn(h3, system)

\* RemoveSampler.sample: line 394 returns system
RemoveSampler_sample(self, h, system, tags) ==
    LET h1 == Alloc(h, Drop(h[system], Range(tags)))
        candidate == Len(h1)
        h2 == [h1 EXCEPT ![candidate].calc = h1[system].calc]
    IN  SampleReturn(h2, system)

\* the loop of SiteExchangeSampler.sample
RECURSIVE SiteExchangeLoop(_, _, _, _)
SiteExchangeLoop(h, candidate, tags, k) ==
    IF k > Len(tags) THEN h
    ELSE
    LET tag == tags[k]
        h1 == Alloc(h, Keep(h[candidate], {tag[1]}))
        atoms1 == Len(h1)
        h2 == Alloc(h1, Keep(h[candidate], {tag[2]}))
        atoms2 == Len(h2)
        center1 == CenterOfMass(h2[atoms1])
        center2 == CenterOfMass(h2[atoms2])
        new_pos ==
            [i \in 1 .. Len(h[candidate].sites) |->
                LET s == h[candidate].sites[i] IN
                IF s.tag = tag[2] THEN DAdd(s.pos, DSub(center1, center2))
                ELSE IF s.tag = tag[1] THEN DAdd(s.pos, DSub(center2, center1))
                ELSE s.pos]
        h3 == [h2 EXCEPT ![atoms1] = Translated(@, DSub(center2, center1)),
                         ![atoms2] = Translated(@, DSub(center1, center2))]
        h4 == [h3 EXCEPT ![candidate].sites =
                  [i \in 1 .. Len(@) |-> [@[i] EXCEPT !.pos = new_pos[i]]]]
    IN  SiteExchangeLoop(h4, candidate, tags, k + 1)

\* SiteExchangeSampler.sample
SiteExchangeSampler_sample(h, system, tags) ==
    LET h1 == Alloc(h, Copy(h[system]))
        candidate == Len(h1)
        h2 == SiteExchangeLoop(h1, candidate, tags, 1)
        h3 == [h2 EXCEPT ![candidate].calc = h2[system].calc]
    IN  SampleReturn(h3, candidate)

\* zip(index1, index2), the indices of the sites with tag t1 and with tag t2
IndicesOf(tagseq, t) ==
    SelectSeq([i \in 1 .. Len(tagseq) |-> i], LAMBDA i : tagseq[i] = t)
Zip(a, b) ==
    [i \in 1 .. (IF Len(a) < Len(b) THEN Len(a) ELSE Len(b)) |-> <<a[i], b[i]>>]

\* for i1, i2 in zip(index1, index2): swap symbols and all_tags
RECURSIVE SwapLoop(_, _, _)
SwapLoop(lists, pairs, k) ==
    IF k > Len(pairs) THEN lists
    ELSE LET i1 == pairs[k][1]
             i2 == pairs[k][2]
             symbols == [lists.symbols EXCEPT ![i1] = lists.symbols[i2],
                                              ![i2] = lists.symbols[i1]]
             all_tags == [lists.all_tags EXCEPT ![i1] = lists.all_tags[i2],
                                                ![i2] = lists.all_tags[i1]]
         IN  SwapLoop([symbols |-> symbols, all_tags |-> all_tags], pairs, k + 1)

\* the loop of ChemicalSymbolExchangeSampler.sample
RECURSIVE SymbolExchangeLoop(_, _, _, _)
SymbolExchangeLoop(lists, candidate_tags, tags, k) ==
    IF k > Len(tags) THEN lists
    ELSE LET index1 == IndicesOf(candidate_tags, tags[k][1])
             index2 == IndicesOf(candidate_tags, tags[k][2])
         IN  SymbolExchangeLoop(SwapLoop(lists, Zip(index1, index2), 1),
                                candidate_tags, tags, k + 1)

\* ChemicalSymbolExchangeSampler.sample
ChemicalSymbolExchangeSampler_sample(h, system, tags) ==
    LET h1 == Alloc(h, Copy(h[system]))
        candidate == Len(h1)
        n == Len(h1[candidate].sites)
        symbols == [i \in 1 .. n |-> h1[candidate].sites[i].symbol]
        all_tags == TagsOf(h1[candidate])
        lists == SymbolExchangeLoop([symbols |-> symbols, all_tags |-> all_tags],
                                    TagsOf(h1[candidate]), tags, 1)
        h2 == [h1 EXCEPT ![candidate].sites =
                  [i \in 1 .. n |-> [@[i] EXCEPT !.symbol = lists.symbols[i],
                                                 !.tag = lists.all_tags[i]]]]
        h3 == [h2 EXCEPT ![candidate].calc = h2[system].calc]
    IN  SampleReturn(h3, candidate)

\* the configurations given to sample: site i at position i, evaluator
\* EMT, the tags 0 (no molecule), 1 and 2
SampleTags == {0, 1, 2}
SampleSystems ==
    UNION {{MkAtoms([i \in 1 .. n |-> Site(t[i], y[i], FloatOf(i))], "EMT") :
               t \in [1 .. n -> SampleTags], y \in [1 .. n -> Symbols]} :
           n \in 0 .. MaxAtoms}

\* the tags given to sample, and the pairs of tags (select_tags returns
\* one tag, or one pair)
TagArgs == UNION {[1 .. n -> SampleTags] : n \in 0 .. MaxSel}
PairArgs == UNION {[1 .. n -> SampleTags \X SampleTags] : n \in 0 .. MaxPairs}

\* the configurations given to select_tags, which reads their tags only
TagSystems ==
    {a \in SampleSystems : \A i \in 1 .. Len(a.sites) : a.sites[i].symbol = "H"}

TranslateVectors == {Float(-1, 0), Float(5, -1)}
AddDraws == [place : {FloatOf(3)}, angle : Angles]

\* the object a sample call returned: the base itself when it returned its
\* argument
SampleRecord(variant, additive, base, tags, r) ==
    [op |-> "sample", variant |-> variant, additive |-> additive,
     base |-> base, tags |-> tags, exc |-> r.exc,
     system |-> r.heap[1],
     returned_base |-> r.ret = 1,
     ret |-> IF r.exc = "none" THEN r.heap[r.ret] ELSE NoAtoms]

\* One sample call is made in a behaviour, on a heap that holds the base
\* configuration as its object 1: sample keeps no state between calls.
Translate_Sample ==
    /\ sampling.op = "none"
    /\ \E base \in SampleSystems, tags \in TagArgs, v \in TranslateVectors :
        sampling' = SampleRecord("Translate", <<>>, base, tags,
                        TranslateSampler_sample(<<base>>, 1, tags, v))
    /\ UNCHANGED <<mc, proposer, lastTB, selector, lastSel, tagsel, engine, call,
                   events, carried, accept, filelog>>

EulerRotate_Sample ==
    /\ sampling.op = "none"
    /\ \E base \in SampleSystems, tags \in TagArgs :
       \E angles \in [1 .. Len(tags) -> Angles] :
        sampling' = SampleRecord("EulerRotate", <<>>, base, tags,
                        EulerRotateSampler_sample(<<base>>, 1, tags, angles))
    /\ UNCHANGED <<mc, proposer, lastTB, selector, lastSel, tagsel, engine, call,
                   events, carried, accept, filelog>>

XYZRotate_Sample ==
    /\ sampling.op = "none"
    /\ \E base \in SampleSystems, tags \in TagArgs :
       \E angles \in [1 .. Len(tags) -> Angles] :
        sampling' = SampleRecord("XYZRotate", <<>>, base, tags,
                        XYZAxesRotateSampler_sample(<<base>>, 1, tags, angles))
    /\ UNCHANGED <<mc, proposer, lastTB, selector, lastSel, tagsel, engine, call,
                   events, carried, accept, filelog>>

Add_Sample ==
    /\ sampling.op = "none"
    /\ \E base \in SampleSystems, tags \in TagArgs, additive \in Additives,
          d \in AddDraws :
        LET self == AddSampler_init(None, additive) IN
        sampling' = SampleRecord("Add", additive.sites, base, tags,
                        AddSampler_sample(self, <<base>>, 1, tags, d))
    /\ UNCHANGED <<mc, proposer, lastTB, selector, lastSel, tagsel, engine, call,
                   events, carried, accept, filelog>>

Remove_Sample ==
    /\ sampling.op = "none"
    /\ \E base \in SampleSystems, tags \in TagArgs, additive \in Additives :
        LET self == RemoveSampler_init(None, additive) IN
        sampling' = SampleRecord("Remove", additive.sites, base, tags,
                        RemoveSampler_sample(self, <<base>>, 1, tags))
    /\ UNCHANGED <<mc, proposer, lastTB, selector, lastSel, tagsel, engine, call,
                   events, carried, accept, filelog>>

SiteExchange_Sample ==
    /\ sampling.op = "none"
    /\ \E base \in SampleSystems, tags \in PairArgs :
        sampling' = SampleRecord("SiteExchange", <<>>, base, tags,
                        SiteExchangeSampler_sample(<<base>>, 1, tags))
    /\ UNCHANGED <<mc, proposer, lastTB, selector, lastSel, tagsel, engine, call,
                   events, carried, accept, filelog>>

SymbolExchange_Sample ==
    /\ sampling.op = "none"
    /\ \E base \in SampleSystems, tags \in PairArgs :
        sampling' = SampleRecord("SymbolExchange", <<>>, base, tags,
                        ChemicalSymbolExchangeSampler_sample(<<base>>, 1, tags))
    /\ UNCHANGED <<mc, proposer, lastTB, selector, lastSel, tagsel, engine, call,
                   events, carried, accept, filelog>>

\* A tag selector object: its class and its attributes.
RandomTagSelector_new(target_tags, ignore_tags) ==
    [kind |-> "random", obj |-> RandomTagSelector_init(target_tags, ignore_tags)]
NotExistTagSelector_new(ignore_tags) ==
    [kind |-> "notexist", obj |-> NotExistTagSelector_init(ignore_tags)]

\* tag_selector.select(system, num_tags): every outcome
TagSelector_select(tag_selector, system, num_tags) ==
    IF tag_selector.kind = "random"
    THEN RandomTagSelector_select(tag_selector.obj, TagsOf(system), num_tags)
    ELSE {[exc |-> "none",
           result |-> NotExistTagSelector_select(tag_selector.obj, TagsOf(system),
                                                 num_tags)]}

\* Sampler.__init__, reached from TranslateSampler, EulerRotateSampler and
\* XYZAxesRotateSampler; AddSampler and RemoveSampler bind the same attribute
Sampler_init(class, tag_selector) ==
    [class |-> class, tag_selector |-> tag_selector]

\* SiteExchangeSampler.__init__: binds tag1_range and tag2_range
SiteExchangeSampler_init(tag1_selector, tag2_selector) ==
    [class |-> "SiteExchangeSampler",
     tag1_range |-> tag1_selector, tag2_range |-> tag2_selector]

\* ChemicalSymbolExchangeSampler.__init__: binds tag1_range and tag2_range
ChemicalSymbolExchangeSampler_init(tag1_selector, tag2_selector) ==
    [class |-> "ChemicalSymbolExchangeSampler",
     tag1_range |-> tag1_selector, tag2_range |-> tag2_selector]

\* SiteExchangeClusterGenerationSampler.__init__
SiteExchangeClusterGenerationSampler_init(tag1_selector, tag2_selector) ==
    [class |-> "SiteExchangeClusterGenerationSampler",
     tag1_selector |-> tag1_selector, tag2_selector |-> tag2_selector]

\* Sampler.select_tags: every outcome
Sampler_select_tags(self, system) ==
    TagSelector_select(self.tag_selector, system, 1)

\* [(t1, t2) for t1, t2 in zip(tag1, tag2)] for every outcome of the two
\* select calls, the first exception raised leaving the method
PairOutcomes(tag1_selector, tag2_selector, system) ==
    {IF o1.exc # "none" THEN [exc |-> o1.exc, result |-> <<>>]
     ELSE IF o2.exc # "none" THEN [exc |-> o2.exc, result |-> <<>>]
     ELSE [exc |-> "none", result |-> Zip(o1.result, o2.result)] :
         o1 \in TagSelector_select(tag1_selector, system, 1),
         o2 \in TagSelector_select(tag2_selector, system, 1)}

\* SiteExchangeSampler.select_tags (ChemicalSymbolExchangeSampler's is the
\* same text, inherited by SiteExchangeClusterGenerationSampler): reading
\* an attribute the instance does not have raises AttributeError
SiteExchangeSampler_select_tags(self, system) ==
    IF "tag1_selector" \notin DOMAIN self
    THEN {[exc |-> "AttributeError", result |-> <<>>]}
    ELSE IF "tag2_selector" \notin DOMAIN self
    THEN {[exc |-> o1.exc, result |-> <<>>] :
             o1 \in {o \in TagSelector_select(self.tag1_selector, system, 1) :
                        o.exc # "none"}}
         \cup {[exc |-> "AttributeError", result |-> <<>>] :
                  o1 \in {o \in TagSelector_select(self.tag1_selector, system, 1) :
                             o.exc = "none"}}
    ELSE PairOutcomes(self.tag1_selector, self.tag2_selector, system)

ChemicalSymbolExchangeSampler_select_tags(self, system) ==
    IF "tag1_selector" \notin DOMAIN self
    THEN {[exc |-> "AttributeError", result |-> <<>>]}
    ELSE IF "tag2_selector" \notin DOMAIN self
    THEN {[exc |-> o1.exc, result |-> <<>>] :
             o1 \in {o \in TagSelector_select(self.tag1_selector, system, 1) :
                        o.exc # "none"}}
         \cup {[exc |-> "AttributeError", result |-> <<>>] :
                  o1 \in {o \in TagSelector_select(self.tag1_selector, system, 1) :
                             o.exc = "none"}}
    ELSE PairOutcomes(self.tag1_selector, self.tag2_selector, system)

SingleSelectorClasses ==
    {"TranslateSampler", "EulerRotateSampler", "XYZAxesRotateSampler",
     "AddSampler", "RemoveSampler"}
ExchangeClasses ==
    {"SiteExchangeSampler", "ChemicalSymbolExchangeSampler",
     "SiteExchangeClusterGenerationSampler"}

\* the exchange sampler of a class, constructed
ExchangeSampler_init(class, tag1_selector, tag2_selector) ==
    CASE class = "SiteExchangeSampler" ->
             SiteExchangeSampler_init(tag1_selector, tag2_selector)
      [] class = "ChemicalSymbolExchangeSampler" ->
             ChemicalSymbolExchangeSampler_init(tag1_selector, tag2_selector)
      [] class = "SiteExchangeClusterGenerationSampler" ->
             SiteExchangeClusterGenerationSampler_init(tag1_selector, tag2_selector)

\* the selectors samplers are built with
SelectorArgs ==
    {RandomTagSelector_new(Some(<<1>>), None),
     RandomTagSelector_new(Some(<<>>), Some(<<0>>)),
     RandomTagSelector_new(None, None),
     NotExistTagSelector_new(None),
     NotExistTagSelector_new(Some(<<0, 1>>))}

SelectTagsRecord(class, tag1_selector, tag2_selector, system, out) ==
    [op |-> "select_tags", class |-> class, tag1_selector |-> tag1_selector,
     tag2_selector |-> tag2_selector, system |-> system,
     exc |-> out.exc, result |-> out.result]

\* select_tags on a sampler with one tag selector
Single_SelectTags ==
    /\ sampling.op = "none"
    /\ \E class \in SingleSelectorClasses, tag_selector \in SelectorArgs,
          system \in TagSystems :
        LET self == Sampler_init(class, tag_selector) IN
        \E out \in Sampler_select_tags(self, system) :
            sampling' = SelectTagsRecord(class, tag_selector, tag_selector,
                                         system, out)
    /\ UNCHANGED <<mc, proposer, lastTB, selector, lastSel, tagsel, engine, call,
                   events, carried, accept, filelog>>

\* select_tags on an exchange sampler
Exchange_SelectTags ==
    /\ sampling.op = "none"
    /\ \E class \in ExchangeClasses, tag1_selector \in SelectorArgs,
          tag2_selector \in SelectorArgs, system \in TagSystems :
        LET self == ExchangeSampler_init(class, tag1_selector, tag2_selector)
            outs == IF class = "SiteExchangeSampler"
                    THEN SiteExchangeSampler_select_tags(self, system)
                    ELSE ChemicalSymbolExchangeSampler_select_tags(self, system)
        IN  \E out \in outs :
                sampling' = SelectTagsRecord(class, tag1_selector, tag2_selector,
                                             system, out)
    /\ UNCHANGED <<mc, proposer, lastTB, selector, lastSel, tagsel, engine, call,
                   events, carried, accept, filelog>>

InitSampler == ThermoAtRest /\ SelectorAtRest /\ TagsAtRest /\ EngineAtRest
    /\ SamplersAtRest

NextSampler ==
    \/ Translate_Sample
    \/ EulerRotate_Sample
    \/ XYZRotate_Sample
    \/ Add_Sample
    \/ Remove_Sample
    \/ SiteExchange_Sample
    \/ SymbolExchange_Sample
    \/ Single_SelectTags
    \/ Exchange_SelectTags

SpecSampler == InitSampler /\ [][NextSampler]_vars

Sampled == sampling.op = "sample" /\ sampling.exc = "none"

\* the sites of the base that carry one of the tags given
Selected(base, tags) ==
    {i \in 1 .. Len(base.sites) : base.sites[i].tag \in Range(tags)}

(* C14: the candidate sample returns carries the base's energy evaluator   *)
(* and has as many sites as the base for Translate, EulerRotate,           *)
(* XYZRotate, SiteExchange and SymbolExchange; for Add it has              *)
(* len(tags) * len(additive) more, the new ones carrying the fresh tags,   *)
(* one additive after the other; for Remove it has the base's sites        *)
(* without those carrying a selected tag, and none of these is left.       *)
C14_CandidateSitesClaim ==
    Sampled =>
        LET base == sampling.base
            ret == sampling.ret
            n == Len(base.sites)
            m == Len(sampling.additive)
        IN  /\ ret.calc = base.calc
            /\ sampling.variant \in CanonicalVariants => Len(ret.sites) = n
            /\ sampling.variant = "Add" =>
                   /\ Len(ret.sites) = n + Len(sampling.tags) * m
                   /\ \A k \in 1 .. Len(sampling.tags) : \A j \in 1 .. m :
                          ret.sites[n + (k - 1) * m + j].tag = sampling.tags[k]
            /\ sampling.variant = "Remove" =>
                   /\ Len(ret.sites) = n - Cardinality(Selected(base, sampling.tags))
                   /\ Selected(ret, sampling.tags) = {}

\* whatever the sampler, sample(configuration, tags) leaves the base
\* configuration as it was: its sites, and the position, tag and chemical
\* symbol of each, and its evaluator
SampleLeavesBase ==
    sampling.op = "sample" => sampling.system = sampling.base

(* C18: whatever the sampler, sample(configuration, tags) leaves the base  *)
(* configuration as it was (site count, positions, tags and chemical       *)
(* symbols), so that a step whose move is rejected returns a configuration *)
(* identical in content to the one it received.                            *)
C18_RejectedStepReturnsBase ==
    /\ SampleLeavesBase
    /\ (StepTested /\ ~call.last.is_accepted) =>
           /\ call.last.exc = "none"
           /\ call.last.ret = call.last.system

(* C16: select_tags of an exchange sampler (SiteExchangeSampler,           *)
(* ChemicalSymbolExchangeSampler, SiteExchangeClusterGenerationSampler)    *)
(* built with two tag selectors returns the pairs (tag1, tag2) of a        *)
(* selection of the first selector and one of the second, or raises what   *)
(* the selector raises; select_tags of every other sampler returns a       *)
(* selection of its one selector, made with the tag count 1.               *)
C16_SelectTagsClaim ==
    sampling.op = "select_tags" =>
        LET out == [exc |-> sampling.exc, result |-> sampling.result] IN
        IF sampling.class \in ExchangeClasses
        THEN out \in PairOutcomes(sampling.tag1_selector, sampling.tag2_selector,
                                  sampling.system)
        ELSE out \in TagSelector_select(sampling.tag1_selector, sampling.system, 1)

-----------------------------------------------------------------------------
(* MCPFileLogger and the files it writes.  The disk maps a path to a file, *)
(* absent or a list of lines, each line with its newline.                  *)

MaxInterval == 2    \* log_interval is 1 .. MaxInterval

Paths == {"a.csv", "b.csv"}
Absent == [exists |-> FALSE, lines |-> <<>>]
File(lines) == [exists |-> TRUE, lines |-> lines]
\* the text initialize() writes: the six column names right-aligned in widths
\* 10, 15, 22, 10, 15 and 12, joined by ", ", and a newline
Header ==
    " iteration,   proposer.name, latest_accepted_energy,    delta_e,   acceptability,  is_accepted\n"
Disks == [Paths -> {Absent, File(<<>>), File(<<"old\n">>)}]

NoLogger == [exists |-> FALSE]

\* MCPFileLogger.__init__: the instance, none when it raises
MCPFileLogger_init(log_interval, out_file, force_overwrite) ==
    IF ~force_overwrite
    THEN [obj |-> NoLogger, exc |-> "RuntimeError"]
    ELSE [obj |-> [exists |-> TRUE, log_interval |-> log_interval,
                   out_file |-> out_file, force_overwrite |-> force_overwrite],
          exc |-> "none"]

\* MCPFileLogger.initialize: open(self.out_file, "w") and write the header
MCPFileLogger_initialize(self, disk) ==
    IF disk[self.out_file].exists /\ ~self.force_overwrite
    THEN [disk |-> disk, exc |-> "RuntimeError"]
    ELSE [disk |-> [disk EXCEPT ![self.out_file] = File(<<Header>>)],
          exc |-> "none"]

\* Atoms.get_potential_energy(): the energy, or the exception it raises
\* (RuntimeError for an Atoms without calculator, which is what
\* Atoms.copy() returns; a calculator raises what it likes)
Energy(value) == [exc |-> "none", value |-> value]
NoEnergy(exc) == [exc |-> exc, value |-> NaN]
PotentialEnergies ==
    {Energy(Rat(0, 1)), Energy(ROne)} \cup {NoEnergy(exc) : exc \in Exceptions}

\* the MCStepInfo objects given to log: what log reads of them before it
\* raises
LoggedInfos ==
    [iteration : 0 .. MaxIter, candidate : PotentialEnergies,
     system : PotentialEnergies]
NoLoggedInfo ==
    [iteration |-> NoIter, candidate |-> NoEnergy("none"),
     system |-> NoEnergy("none")]

\* MCPFileLogger.log with an MCStepInfo: lines 64-66 ask the candidate and
\* then the system for their energy, and either call may raise; line 68
\* then reads info.proposer, a field MCStepInfo does not have, before the
\* file is opened
MCPFileLogger_log(self, info, disk) ==
    IF info.iteration % self.log_interval # 0
    THEN [disk |-> disk, exc |-> "none"]
    ELSE IF info.candidate.exc # "none"
    THEN [disk |-> disk, exc |-> info.candidate.exc]
    ELSE IF info.system.exc # "none"
    THEN [disk |-> disk, exc |-> info.system.exc]
    ELSE LET delta_energy == FSub(info.candidate.value, info.system.value)
         IN  [disk |-> disk, exc |-> "AttributeError"]

FileRecord(op, log_interval, out_file, force_overwrite, info, exc, pre,
           disk, logger) ==
    [op |-> op, log_interval |-> log_interval, out_file |-> out_file,
     force_overwrite |-> force_overwrite, info |-> info, exc |-> exc,
     pre |-> pre, disk |-> disk, logger |-> logger]

FileLogger_Construct ==
    /\ ~filelog.logger.exists
    /\ \E log_interval \in 1 .. MaxInterval, out_file \in Paths,
          force_overwrite \in BOOLEAN :
        LET r == MCPFileLogger_init(log_interval, out_file, force_overwrite) IN
        filelog' = FileRecord("init", log_interval, out_file, force_overwrite,
                              NoLoggedInfo, r.exc, filelog.disk, filelog.disk,
                              r.obj)
    /\ UNCHANGED <<mc, proposer, lastTB, selector, lastSel, tagsel, engine, call,
                   events, carried, accept, sampling>>

FileLogger_Initialize ==
    /\ filelog.logger.exists
    /\ LET self == filelog.logger
           r == MCPFileLogger_initialize(self, filelog.disk)
       IN  filelog' = FileRecord("initialize", self.log_interval, self.out_file,
                                 self.force_overwrite, NoLoggedInfo, r.exc,
                                 filelog.disk, r.disk, self)
    /\ UNCHANGED <<mc, proposer, lastTB, selector, lastSel, tagsel, engine, call,
                   events, carried, accept, sampling>>

FileLogger_Log ==
    /\ filelog.logger.exists
    /\ \E info \in LoggedInfos :
        LET self == filelog.logger
            r == MCPFileLogger_log(self, info, filelog.disk)
        IN  filelog' = FileRecord("log", self.log_interval, self.out_file,
                                  self.force_overwrite, info, r.exc,
                                  filelog.disk, r.disk, self)
    /\ UNCHANGED <<mc, proposer, lastTB, selector, lastSel, tagsel, engine, call,
                   events, carried, accept, sampling>>

InitFile ==
    /\ ThermoAtRest /\ SelectorAtRest /\ TagsAtRest /\ EngineAtRest
    /\ accept = NoAccept /\ sampling = NoSampling
    /\ \E disk \in Disks :
        filelog = FileRecord("none", 0, "", FALSE, NoLoggedInfo, "none", disk,
                             disk, NoLogger)

NextFile ==
    \/ FileLogger_Construct
    \/ FileLogger_Initialize
    \/ FileLogger_Log

SpecFile == InitFile /\ [][NextFile]_vars

\* the target existed when the last operation began
TargetExisted == filelog.pre[filelog.out_file].exists

(* C15: construction and initialize() of an MCPFileLogger raise only when  *)
(* the target path exists and force_overwrite is not set, and then nothing *)
(* is written; when the target does not exist or force_overwrite is set,   *)
(* construction yields a logger, and initialize() returns and leaves the   *)
(* header as the target's content; a target that exists without            *)
(* force_overwrite is refused by initialize() if construction did not.     *)
C15_FileLoggerRefusesClaim ==
    /\ filelog.op = "init" =>
           /\ filelog.exc # "none" =>
                  /\ TargetExisted /\ ~filelog.force_overwrite
                  /\ filelog.disk = filelog.pre
           /\ (~TargetExisted \/ filelog.force_overwrite) =>
                  filelog.exc = "none" /\ filelog.logger.exists
    /\ filelog.op = "initialize" =>
           IF TargetExisted /\ ~filelog.force_overwrite
           THEN filelog.exc = "RuntimeError" /\ filelog.disk = filelog.pre
           ELSE /\ filelog.exc = "none"
                /\ filelog.disk =
                       [filelog.pre EXCEPT ![filelog.out_file] = File(<<Header>>)]

=============================================================================
